---- MODULE Spec2Model ----
(***************************************************************************)
(* Model of TheTally's automated transaction categorization engine:        *)
(*   backend/app/models/categorization_rule.py   (CategorizationRule)      *)
(*   backend/app/models/transaction.py           (Transaction.categorize)  *)
(*   backend/app/services/categorization_service.py (CategorizationService)*)
(*                                                                         *)
(* Conventions.  Strings that the matcher inspects are sequences of        *)
(* one-character strings.  Money is in cents, confidences in hundredths.   *)
(* A nullable integer column holds Null, a nullable string column NoStr.   *)
(* A rule's id is its position in the rules table (autoincrement key).     *)
(***************************************************************************)
EXTENDS Integers, Sequences, FiniteSets, TLC

VARIABLES
    rules,          \* table categorization_rules: sequence of rule rows
    transactions,   \* table transactions: sequence of transaction rows
    ret,            \* outcome of the last service call (return value / exception)
    bulk,           \* the bulk categorization call: its locals, position and result
    calls,          \* number of service calls made so far
    workers,        \* concurrent database sessions: what each has loaded and changed
    auth            \* the users row of the login service and its clock, in minutes

vars == <<rules, transactions, ret, bulk, calls, workers, auth>>

----------------------------------------------------------------------------
(* Bounds of the model *)

MaxRules == 3
MaxCalls == 4
MaxBulkCalls == 2
MaxCount == 12
MaxManageCalls == 3
MaxClock == 80

(* Representation of NULL / None *)
Null == -1
NoStr == "None"

Tenants == {"t1", "t2"}
Dates == {1, 2}

----------------------------------------------------------------------------
(* Fixed collaborators: the categories table (models/category.py). *)

Categories ==
    << [tenant_id |-> "t1", name |-> "food", is_deleted |-> FALSE],
       [tenant_id |-> "t1", name |-> "fuel", is_deleted |-> FALSE],
       [tenant_id |-> "t2", name |-> "misc", is_deleted |-> FALSE],
       [tenant_id |-> "t1", name |-> "gone", is_deleted |-> TRUE] >>

CategoryIds == 1..Len(Categories)

(* rule.category.name : the relationship loads the row by primary key *)
CategoryName(rule) == Categories[rule.category_id].name

----------------------------------------------------------------------------
(* Python string helpers used by the matcher *)

Lower(c) ==
    CASE c = "A" -> "a"
      [] c = "B" -> "b"
      [] OTHER -> c

(* str.lower() *)
LowerStr(s) == [i \in 1..Len(s) |-> Lower(s[i])]

IsSubstrAt(p, s, k) ==
    /\ k + Len(p) - 1 <= Len(s)
    /\ \A i \in 1..Len(p) : s[k + i - 1] = p[i]

(* `pattern in field_value` : the empty pattern is in every string *)
Contains(p, s) == \E k \in 1..(Len(s) + 1) : IsSubstrAt(p, s, k)

(* re.compile(pattern): over the modelled pattern alphabet the only pattern
   that fails to compile is one with an unbalanced "(" *)
ReCompiles(p) == \A i \in 1..Len(p) : p[i] # "("

(* re.search(pattern, s), unanchored, for patterns made of literal
   characters with an optional leading "^" *)
ReSearch(p, s) ==
    IF Len(p) > 0 /\ p[1] = "^"
    THEN IsSubstrAt(Tail(p), s, 1)
    ELSE Contains(p, s)

(* A field value whose conversion str(field_value) raises *)
Unprintable == << "<unprintable>" >>

(* getattr(transaction, field_to_match, ""): a transaction-like object is a
   record, an attribute it lacks is a field the record lacks, and a missing
   attribute gives "" *)
FieldValue(tx, field) ==
    CASE field = "description" /\ "description" \in DOMAIN tx -> tx.description
      [] field = "merchant_name" /\ "merchant_name" \in DOMAIN tx -> tx.merchant_name
      [] OTHER -> << >>

(* What a block of code does: it returns a value or raises an exception *)
Returns(v) == [raised |-> "none", value |-> v]
Raises(e) == [raised |-> e, value |-> FALSE]

(* transaction.amount < self.amount_min : the exception the comparison
   raises when the object has no amount or an amount of None *)
AmountFault(tx) ==
    IF "amount" \notin DOMAIN tx THEN "AttributeError"
    ELSE IF tx.amount = Null THEN "TypeError"
    ELSE "none"

(* Faulty variant of the lower amount condition that excludes the bound
   itself; the inclusive bounds property must fail on it *)
AtOrBelowMin(rule, tx) == tx.amount <= rule.amount_min

(* The amount conditions of matches_transaction *)
BelowMin(rule, tx) == tx.amount < rule.amount_min
AboveMax(rule, tx) == tx.amount > rule.amount_max

(* Faulty variant of the literal comparison that looks for the pattern at
   the start of the field value only; the literal matching property must
   fail on it *)
StartsWith(p, s) == IsSubstrAt(p, s, 1)

(* `pattern in field_value` of matches_transaction *)
LiteralMatch(p, s) == Contains(p, s)

(* The try block of matches_transaction *)
MatchAttempt(rule, tx) ==
    IF rule.amount_min # Null /\ AmountFault(tx) # "none" THEN Raises(AmountFault(tx))
    ELSE IF rule.amount_min # Null /\ BelowMin(rule, tx) THEN Returns(FALSE)
    ELSE IF rule.amount_max # Null /\ AmountFault(tx) # "none" THEN Raises(AmountFault(tx))
    ELSE IF rule.amount_max # Null /\ AboveMax(rule, tx) THEN Returns(FALSE)
    ELSE LET raw == FieldValue(tx, rule.field_to_match) IN
         IF raw = << >> THEN Returns(FALSE)
         ELSE IF raw = Unprintable THEN Raises("TypeError")
         ELSE LET field_value == IF ~rule.is_case_sensitive THEN LowerStr(raw) ELSE raw
                  pattern == IF ~rule.is_case_sensitive THEN LowerStr(rule.pattern)
                             ELSE rule.pattern
              IN IF rule.is_regex
                 THEN IF ReCompiles(pattern) THEN Returns(ReSearch(pattern, field_value))
                      ELSE Returns(FALSE)
                 ELSE Returns(LiteralMatch(pattern, field_value))

(* Faulty variant of the handler that lets the exception through; the
   matcher totality property must fail on it *)
ExceptNothing(attempt) == attempt

(* `except Exception: return False` of matches_transaction *)
ExceptException(attempt) == IF attempt.raised # "none" THEN Returns(FALSE) ELSE attempt

(* A call of matches_transaction: what it returns, and what it raises *)
MatchCall(rule, tx) == ExceptException(MatchAttempt(rule, tx))

(* CategorizationRule.matches_transaction *)
matches_transaction(rule, tx) == MatchCall(rule, tx).value

----------------------------------------------------------------------------
(* Derived rule properties *)

(* CategorizationRule.success_rate, in thousandths and rounded down: 0.0
   when match_count = 0, else float(success_count / match_count).  The code
   compares the rate with 0.8 and 0.3 only, and for 32-bit counters the
   correctly rounded quotient compares with these doubles exactly as the
   fraction compares with 800 and 300 thousandths. *)
success_rate(rule) ==
    IF rule.match_count = 0 THEN 0
    ELSE (1000 * rule.success_count) \div rule.match_count

(* success_rate >= 0.8 *)
SuccessRateAtLeast80(rule) == success_rate(rule) >= 800

is_high_performing(rule) == SuccessRateAtLeast80(rule) /\ rule.match_count >= 10

(* Faulty variant of is_low_performing that counts a rate of exactly 0.3 as
   low; the performance flags property must fail on it *)
is_low_performing_inclusive(rule) == success_rate(rule) <= 300 /\ rule.match_count >= 5

is_low_performing(rule) == success_rate(rule) < 300 /\ rule.match_count >= 5

(* Faulty variant of can_be_deleted that forgets the system-rule check;
   the deletion guard property must fail on it *)
can_be_deleted_ignoring_system(rule) ==
    IF is_high_performing(rule) THEN FALSE ELSE TRUE

(* CategorizationRule.can_be_deleted *)
can_be_deleted(rule) ==
    IF rule.is_system THEN FALSE
    ELSE IF is_high_performing(rule) THEN FALSE
    ELSE TRUE

----------------------------------------------------------------------------
(* Faulty variant of Transaction.categorize that keeps the previous
   subcategory when it is given none; the effect-of-applying property must
   fail on it *)
categorize_keeping_subcategory(tx, category, subcategory, confidence, rule_id) ==
    [tx EXCEPT !.transaction_category = category,
               !.transaction_subcategory = IF subcategory # NoStr THEN subcategory ELSE @,
               !.is_auto_categorized = (rule_id # Null),
               !.categorization_confidence = IF confidence # Null THEN confidence ELSE @,
               !.categorization_rule_id = IF rule_id # Null THEN rule_id ELSE @]

(* Transaction.categorize *)
categorize(tx, category, subcategory, confidence, rule_id) ==
    [tx EXCEPT !.transaction_category = category,
               !.transaction_subcategory = subcategory,
               !.is_auto_categorized = (rule_id # Null),
               !.categorization_confidence = IF confidence # Null THEN confidence ELSE @,
               !.categorization_rule_id = IF rule_id # Null THEN rule_id ELSE @]

(* str(float(d)) for a Decimal d of two decimals, given in hundredths: the
   shortest text that reads back as the same float, which is the integer
   part and the decimals without a trailing zero ("0.8", "0.95", "1.0") *)
FloatStr(h) ==
    [whole |-> h \div 100,
     decimals |-> IF h % 10 # 0 THEN << (h % 100) \div 10, h % 10 >> ELSE << (h % 100) \div 10 >>]

(* Decimal(text) stored in a Numeric(3, 2) column, in hundredths *)
DecimalOfStr(text) ==
    text.whole * 100 + text.decimals[1] * 10
    + (IF Len(text.decimals) > 1 THEN text.decimals[2] ELSE 0)

(* float(self.confidence_threshold) in apply_to_transaction, then
   Decimal(str(confidence)) in Transaction.categorize *)
ConfidenceOf(rule) == DecimalOfStr(FloatStr(rule.confidence_threshold))

(* Faulty variant of the statistics update that stops after the first
   write; the all-or-nothing property must fail on it *)
UpdateStatisticsMatchOnly(rule, now) ==
    [rule EXCEPT !.match_count = @ + 1]

(* The statistics update at the end of apply_to_transaction *)
UpdateStatistics(rule, now) ==
    [rule EXCEPT !.match_count = @ + 1,
                 !.success_count = @ + 1,
                 !.last_matched_at = now,
                 !.last_success_at = now]

(* Faulty variant of the limit check that lets a rule at its cap through;
   the cap fall-through property must fail on it *)
LimitExceeded(rule) == rule.match_count > rule.max_matches_per_day

(* Faulty variant of the limit check that never stops a rule; the lifetime
   cap property must fail on it *)
LimitIgnored(rule) == FALSE

(* The daily match limit check of apply_to_transaction *)
LimitReached(rule) == rule.match_count >= rule.max_matches_per_day

(* Faulty variant of apply_to_transaction that records a match on a rule at
   its cap before giving up; the no-match frame property must fail on it *)
apply_recording_capped(rule, rule_id, tx, now, load_ok) ==
    IF ~matches_transaction(rule, tx)
    THEN [raised |-> FALSE, success |-> FALSE, rule |-> rule, tx |-> tx]
    ELSE IF ~(rule.match_count < rule.max_matches_per_day)
    THEN [raised |-> FALSE, success |-> FALSE,
          rule |-> [rule EXCEPT !.match_count = @ + 1, !.last_matched_at = now],
          tx |-> tx]
    ELSE IF ~load_ok
    THEN [raised |-> TRUE, success |-> FALSE, rule |-> rule, tx |-> tx]
    ELSE [raised |-> FALSE, success |-> TRUE,
          rule |-> [rule EXCEPT !.match_count = @ + 1, !.success_count = @ + 1,
                                !.last_matched_at = now, !.last_success_at = now],
          tx |-> categorize(tx, CategoryName(rule), rule.subcategory,
                            ConfidenceOf(rule), rule_id)]

(* CategorizationRule.apply_to_transaction.  load_ok = FALSE: the lazy load
   of self.category raises (a storage error) while the arguments of
   transaction.categorize are evaluated, before anything is written. *)
apply_to_transaction(rule, rule_id, tx, now, load_ok) ==
    IF ~matches_transaction(rule, tx)
    THEN [raised |-> FALSE, success |-> FALSE, rule |-> rule, tx |-> tx]
    ELSE IF LimitReached(rule)
    THEN [raised |-> FALSE, success |-> FALSE, rule |-> rule, tx |-> tx]
    ELSE IF ~load_ok
    THEN [raised |-> TRUE, success |-> FALSE, rule |-> rule, tx |-> tx]
    ELSE [raised |-> FALSE, success |-> TRUE,
          rule |-> UpdateStatistics(rule, now),
          tx |-> categorize(tx, CategoryName(rule), rule.subcategory,
                            ConfidenceOf(rule), rule_id)]

(* Faulty variant of the filter that lets archived rules through; the
   eligibility property must fail on it *)
ActiveRuleIdsWithArchived(rs, tenant_id, rule_type) ==
    { i \in DOMAIN rs :
        /\ rs[i].tenant_id = tenant_id
        /\ rs[i].is_deleted = FALSE
        /\ (rule_type # NoStr => rs[i].rule_type = rule_type) }

(* The filter of the get_active_rules query *)
ActiveRuleIds(rs, tenant_id, rule_type) ==
    { i \in DOMAIN rs :
        /\ rs[i].tenant_id = tenant_id
        /\ rs[i].is_deleted = FALSE
        /\ rs[i].is_active = TRUE
        /\ (rule_type # NoStr => rs[i].rule_type = rule_type) }

(* Faulty variant of the ordering, ascending instead of descending; the
   first-match-wins property must fail on it *)
LowestPriorityFirst(rs, S, x) == \A y \in S : rs[x].priority <= rs[y].priority

(* ORDER BY priority DESC: row x may come first among the rows S.  The query
   names no second key, so the database may return rows of equal priority in
   any order. *)
OrderedByPriorityDesc(rs, S, x) == \A y \in S : rs[x].priority >= rs[y].priority

(* The lists in which the query can return the rows S *)
RECURSIVE QueryResults(_, _)
QueryResults(rs, S) ==
    IF S = {} THEN { << >> }
    ELSE UNION { { <<x>> \o rest : rest \in QueryResults(rs, S \ {x}) }
                 : x \in { y \in S : OrderedByPriorityDesc(rs, S, y) } }

(* CategorizationService.get_active_rules: the lists the query can return *)
get_active_rules(rs, tenant_id, rule_type) ==
    QueryResults(rs, ActiveRuleIds(rs, tenant_id, rule_type))

(* The for loop of categorize_transaction, from position i of the list.
   The rule and the transaction are objects that apply_to_transaction works
   on in place: what it did to them stays, whatever it returns. *)
RECURSIVE ScanRules(_, _, _, _, _, _)
ScanRules(rs, order, i, tx, now, load_ok) ==
    IF i > Len(order)
    THEN [raised |-> "none", success |-> FALSE, rule |-> Null, rules |-> rs, tx |-> tx]
    ELSE LET r == order[i] IN
         IF matches_transaction(rs[r], tx)
         THEN LET a == apply_to_transaction(rs[r], r, tx, now, load_ok)
                  rs2 == [rs EXCEPT ![r] = a.rule]
              IN IF a.raised
                 THEN [raised |-> "StorageError", success |-> FALSE, rule |-> Null,
                       rules |-> rs2, tx |-> a.tx]
                 ELSE IF a.success
                 THEN [raised |-> "none", success |-> TRUE, rule |-> r,
                       rules |-> rs2, tx |-> a.tx]
                 ELSE ScanRules(rs2, order, i + 1, a.tx, now, load_ok)
         ELSE ScanRules(rs, order, i + 1, tx, now, load_ok)

(* CategorizationService.categorize_transaction.  fetch_ok = FALSE: the
   get_active_rules query raises; the handler logs and re-raises. *)
categorize_transaction(rs, tx, order, fetch_ok, load_ok, now) ==
    IF ~fetch_ok
    THEN [raised |-> "StorageError", success |-> FALSE, rule |-> Null,
          rules |-> rs, tx |-> tx]
    ELSE ScanRules(rs, order, 1, tx, now, load_ok)

----------------------------------------------------------------------------
(* Rows and calls *)

(* The transactions table.  Only the categorization columns change. *)
InitialTransactions ==
    << [tenant_id |-> "t1", is_deleted |-> FALSE, account_id |-> 1,
        transaction_date |-> 1, amount |-> 2500,
        description |-> <<"A", "b">>, merchant_name |-> << >>,
        transaction_category |-> NoStr, transaction_subcategory |-> NoStr,
        is_auto_categorized |-> FALSE, categorization_confidence |-> Null,
        categorization_rule_id |-> Null],
       [tenant_id |-> "t1", is_deleted |-> FALSE, account_id |-> 1,
        transaction_date |-> 2, amount |-> 999,
        description |-> <<"b">>, merchant_name |-> << >>,
        transaction_category |-> "fuel", transaction_subcategory |-> "diesel",
        is_auto_categorized |-> FALSE, categorization_confidence |-> Null,
        categorization_rule_id |-> Null],
       [tenant_id |-> "t2", is_deleted |-> FALSE, account_id |-> 2,
        transaction_date |-> 1, amount |-> 2500,
        description |-> <<"a", "b">>, merchant_name |-> << >>,
        transaction_category |-> NoStr, transaction_subcategory |-> NoStr,
        is_auto_categorized |-> FALSE, categorization_confidence |-> Null,
        categorization_rule_id |-> Null],
       [tenant_id |-> "t1", is_deleted |-> TRUE, account_id |-> 1,
        transaction_date |-> 1, amount |-> 2500,
        description |-> <<"a", "b">>, merchant_name |-> << >>,
        transaction_category |-> NoStr, transaction_subcategory |-> NoStr,
        is_auto_categorized |-> FALSE, categorization_confidence |-> Null,
        categorization_rule_id |-> Null] >>

TxIds == DOMAIN InitialTransactions
AccountIds == {1, 2}

(* Column defaults of CategorizationRule and BaseModel for the columns that
   create_rule does not set *)
ColumnDefaults ==
    [amount_min |-> Null, amount_max |-> Null, subcategory |-> NoStr,
     last_matched_at |-> Null, last_success_at |-> Null, is_deleted |-> FALSE]

(* The calls of create_rule the model makes: positional arguments and kwargs *)
CreateCalls ==
    << [tenant_id |-> "t1", pattern |-> <<"a">>, category_id |-> 1, rule_type |-> "keyword",
        kwargs |-> [priority |-> 200, max_matches_per_day |-> 1, is_system |-> TRUE]],
       [tenant_id |-> "t1", pattern |-> <<"b">>, category_id |-> 2, rule_type |-> "keyword",
        kwargs |-> [priority |-> 100, max_matches_per_day |-> 2, subcategory |-> "petrol"]],
       [tenant_id |-> "t2", pattern |-> <<"^", "a">>, category_id |-> 3, rule_type |-> "regex",
        kwargs |-> [priority |-> 100, max_matches_per_day |-> 1, is_regex |-> TRUE]],
       [tenant_id |-> "t1", pattern |-> <<"b">>, category_id |-> 1, rule_type |-> "keyword",
        kwargs |-> [priority |-> 50, match_count |-> 9, success_count |-> 7,
                    confidence_threshold |-> 95]],
       [tenant_id |-> "t1", pattern |-> <<"b">>, category_id |-> 1, rule_type |-> "bogus",
        kwargs |-> [priority |-> 100]],
       [tenant_id |-> "t1", pattern |-> <<"b">>, category_id |-> 3, rule_type |-> "keyword",
        kwargs |-> [priority |-> 100]],
       [tenant_id |-> "t1", pattern |-> <<"(">>, category_id |-> 1, rule_type |-> "regex",
        kwargs |-> [priority |-> 100, is_regex |-> TRUE]] >>

(* kwargs.get(key, default) *)
Get(kwargs, key, default) == IF key \in DOMAIN kwargs THEN kwargs[key] ELSE default

ValidTypes == {"keyword", "regex", "amount", "merchant", "combined"}

(* The category lookup of create_rule *)
CategoryExists(category_id, tenant_id) ==
    /\ category_id \in CategoryIds
    /\ Categories[category_id].tenant_id = tenant_id
    /\ Categories[category_id].is_deleted = FALSE

(* rule_data of create_rule, then rule_data.update(kwargs), then the
   column defaults applied by the INSERT *)
NewRule(call) ==
    LET kwargs == call.kwargs
        rule_data ==
            [pattern |-> call.pattern,
             category_id |-> call.category_id,
             rule_type |-> call.rule_type,
             tenant_id |-> call.tenant_id,
             is_case_sensitive |-> Get(kwargs, "is_case_sensitive", FALSE),
             is_regex |-> Get(kwargs, "is_regex", FALSE),
             field_to_match |-> Get(kwargs, "field_to_match", "description"),
             priority |-> Get(kwargs, "priority", 100),
             is_active |-> TRUE,
             is_system |-> FALSE,
             match_count |-> 0,
             success_count |-> 0,
             confidence_threshold |-> Get(kwargs, "confidence_threshold", 80),
             max_matches_per_day |-> Get(kwargs, "max_matches_per_day", 1000)]
    IN (kwargs @@ rule_data) @@ ColumnDefaults

(* The validation of create_rule: the ValueError it raises, or "none" *)
CreateError(call) ==
    IF call.rule_type \notin ValidTypes THEN "ValueError"
    ELSE IF ~CategoryExists(call.category_id, call.tenant_id) THEN "ValueError"
    ELSE IF Get(call.kwargs, "is_regex", FALSE) /\ ~ReCompiles(call.pattern) THEN "ValueError"
    ELSE "none"

(* CategorizationService.get_rule_by_id: the id of the row found, or Null *)
get_rule_by_id(rs, rule_id, tenant_id) ==
    IF /\ rule_id \in DOMAIN rs
       /\ rs[rule_id].tenant_id = tenant_id
       /\ rs[rule_id].is_deleted = FALSE
    THEN rule_id
    ELSE Null

(* BaseModel.soft_delete *)
soft_delete(rule) == [rule EXCEPT !.is_deleted = TRUE]

(* CategorizationService.delete_rule: the rows after the call, and what it raised *)
delete_rule(rs, rule_id, tenant_id) ==
    LET r == get_rule_by_id(rs, rule_id, tenant_id) IN
    IF r = Null THEN [rules |-> rs, raised |-> "ValueError"]
    ELSE IF ~can_be_deleted(rs[r]) THEN [rules |-> rs, raised |-> "ValueError"]
    ELSE [rules |-> [rs EXCEPT ![r] = soft_delete(rs[r])], raised |-> "none"]

(* Faulty variant of record_match that counts the success but not the
   match; the counter consistency property must fail on it *)
record_match_uncounted(rule, success, now) ==
    [rule EXCEPT !.success_count = IF success THEN @ + 1 ELSE @,
                 !.last_success_at = IF success THEN now ELSE @,
                 !.last_matched_at = now]

(* CategorizationRule.record_match *)
record_match(rule, success, now) ==
    [rule EXCEPT !.match_count = @ + 1,
                 !.success_count = IF success THEN @ + 1 ELSE @,
                 !.last_success_at = IF success THEN now ELSE @,
                 !.last_matched_at = now]

(* CategorizationRule.reset_statistics *)
reset_statistics(rule) ==
    [rule EXCEPT !.match_count = 0, !.success_count = 0,
                 !.last_matched_at = Null, !.last_success_at = Null]

(* BaseService.update: every keyword that names an attribute of the instance
   is assigned, whatever the attribute is; the others are skipped *)
BaseUpdate(instance, kwargs) ==
    [a \in DOMAIN instance |-> IF a \in DOMAIN kwargs THEN kwargs[a] ELSE instance[a]]

(* The update_data dictionaries the model passes to update_rule *)
UpdateCalls ==
    << [priority |-> 300],
       [pattern |-> <<"(">>],
       [pattern |-> <<"(">>, is_regex |-> TRUE],
       [rule_type |-> "bogus"],
       [category_id |-> 3],
       [amount_min |-> 5000, amount_max |-> 1000],
       [match_count |-> 0, success_count |-> 0, last_matched_at |-> 9],
       [no_such_attribute |-> 1],
       [is_deleted |-> TRUE] >>

(* The validation of update_rule: the new pattern is compiled only when the
   rule as stored is a regex rule *)
UpdateError(rule, update_data) ==
    IF "pattern" \in DOMAIN update_data /\ rule.is_regex /\ ~ReCompiles(update_data.pattern)
    THEN "ValueError"
    ELSE "none"

(* CategorizationService.update_rule: the rows after the call, and what it raised *)
update_rule(rs, rule_id, tenant_id, update_data) ==
    LET r == get_rule_by_id(rs, rule_id, tenant_id) IN
    IF r = Null THEN [rules |-> rs, raised |-> "ValueError"]
    ELSE IF UpdateError(rs[r], update_data) # "none"
         THEN [rules |-> rs, raised |-> "ValueError"]
         ELSE [rules |-> [rs EXCEPT ![r] = BaseUpdate(rs[r], update_data)], raised |-> "none"]

(* Further calls of create_rule, with amount bounds among the kwargs *)
ManagedCreateCalls ==
    CreateCalls \o
    << [tenant_id |-> "t1", pattern |-> <<"b">>, category_id |-> 2, rule_type |-> "amount",
        kwargs |-> [priority |-> 100, amount_min |-> 5000, amount_max |-> 1000]],
       [tenant_id |-> "t1", pattern |-> <<"b">>, category_id |-> 2, rule_type |-> "amount",
        kwargs |-> [priority |-> 100, amount_min |-> 1000, amount_max |-> 5000]] >>

(* Faulty variant of the test loop's body that records each match on the
   rule as a categorization would; the read-only testing property must fail
   on it *)
TestStepRecording(rule, tx, results, now) ==
    IF matches_transaction(rule, tx)
    THEN [rule |-> [rule EXCEPT !.match_count = @ + 1, !.last_matched_at = now], tx |-> tx,
          results |-> [results EXCEPT !.matches = @ + 1]]
    ELSE [rule |-> rule, tx |-> tx, results |-> results]

(* Faulty variant of the test loop's body that never counts a missed
   transaction; the test tallies property must fail on it *)
TestStepIgnoringMisses(rule, tx, results, now) ==
    [rule |-> rule, tx |-> tx,
     results |->
        IF matches_transaction(rule, tx)
        THEN IF tx.transaction_category = CategoryName(rule)
             THEN [results EXCEPT !.matches = @ + 1, !.successes = @ + 1]
             ELSE [results EXCEPT !.matches = @ + 1, !.false_positives = @ + 1]
        ELSE results]

(* One iteration of the loop of test_against_transactions: the rule and the
   transaction as the iteration leaves them, and the results so far *)
TestStep(rule, tx, results, now) ==
    [rule |-> rule, tx |-> tx,
     results |->
        IF matches_transaction(rule, tx)
        THEN IF tx.transaction_category = CategoryName(rule)
             THEN [results EXCEPT !.matches = @ + 1, !.successes = @ + 1]
             ELSE [results EXCEPT !.matches = @ + 1, !.false_positives = @ + 1]
        ELSE IF tx.transaction_category = CategoryName(rule)
             THEN [results EXCEPT !.false_negatives = @ + 1]
             ELSE results]

RECURSIVE TestLoop(_, _, _, _, _, _)
TestLoop(rule, txs, txlist, i, results, now) ==
    IF i > Len(txlist) THEN [rule |-> rule, transactions |-> txs, results |-> results]
    ELSE LET step == TestStep(rule, txs[txlist[i]], results, now) IN
         TestLoop(step.rule, [txs EXCEPT ![txlist[i]] = step.tx], txlist, i + 1,
                  step.results, now)

(* CategorizationRule.test_against_transactions on the transactions txlist *)
test_against_transactions(rule, txs, txlist, now) ==
    TestLoop(rule, txs, txlist, 1,
             [total_tested |-> Len(txlist), matches |-> 0, successes |-> 0,
              false_positives |-> 0, false_negatives |-> 0], now)

(* The transactions test_rule queries when it is given none *)
TestableTransactions(txs, tenant_id) ==
    { t \in DOMAIN txs : txs[t].tenant_id = tenant_id /\ txs[t].is_deleted = FALSE }

(* CategorizationService.test_rule, the query returning txlist: the tables
   after the call, the results, and what it raised *)
test_rule(rs, txs, rule_id, tenant_id, txlist, now) ==
    LET r == get_rule_by_id(rs, rule_id, tenant_id) IN
    IF r = Null
    THEN [rules |-> rs, transactions |-> txs, results |-> Null, raised |-> "ValueError"]
    ELSE LET out == test_against_transactions(rs[r], txs, txlist, now) IN
         [rules |-> [rs EXCEPT ![r] = out.rule], transactions |-> out.transactions,
          results |-> out.results, raised |-> "none"]

(* What a service call hands back: the rule it returns or, for delete_rule,
   the rule it looked up (or Null), whether it succeeded, and the exception
   it raised (or "none") *)
Ret(op, rule, success, raised) ==
    [op |-> op, rule |-> rule, success |-> success, raised |-> raised]

----------------------------------------------------------------------------
(* The bulk calls: bulk_categorize_transactions and
   categorize_account_transactions *)

(* snapshot holds the rules that were active when the call started: for
   bulk_categorize_transactions the list it fetches before its loop *)
Idle == [pc |-> "idle", op |-> "none", tenant_id |-> "t1", txs |-> << >>, idx |-> 0,
         categorized |-> 0, failed |-> 0, total |-> 0, errors |-> 0, snapshot |-> {}]

(* The id lists the model passes to bulk_categorize_transactions *)
BulkRequests == {{}, {1, 2, 3, 4}, {2, 3}, {1, 4}}

(* The rows a query returns come in no particular order: every arrangement
   of the set S *)
RECURSIVE Arrangements(_)
Arrangements(S) ==
    IF S = {} THEN { << >> }
    ELSE UNION { { <<x>> \o rest : rest \in Arrangements(S \ {x}) } : x \in S }

(* Faulty variant of the query that forgets the tenant filter; the count
   conservation property must fail on it *)
ResolvedByIdsAnyTenant(txs, transaction_ids, tenant_id) ==
    { t \in DOMAIN txs :
        /\ t \in transaction_ids
        /\ txs[t].is_deleted = FALSE }

(* The transaction query of bulk_categorize_transactions *)
ResolvedByIds(txs, transaction_ids, tenant_id) ==
    { t \in DOMAIN txs :
        /\ t \in transaction_ids
        /\ txs[t].tenant_id = tenant_id
        /\ txs[t].is_deleted = FALSE }

(* The transaction query of categorize_account_transactions; a date filter
   is added only for a truthy date *)
ResolvedByAccount(txs, account_id, tenant_id, start_date, end_date) ==
    { t \in DOMAIN txs :
        /\ txs[t].account_id = account_id
        /\ txs[t].tenant_id = tenant_id
        /\ txs[t].is_deleted = FALSE
        /\ (start_date # Null => txs[t].transaction_date >= start_date)
        /\ (end_date # Null => txs[t].transaction_date <= end_date) }

(* The early return for an empty result, else the loop is entered *)
EnterLoop(op, tenant_id, txlist) ==
    IF Len(txlist) = 0
    THEN [pc |-> "done", op |-> op, tenant_id |-> tenant_id, txs |-> txlist, idx |-> 0,
          categorized |-> 0, failed |-> 0, total |-> 0, errors |-> 0, snapshot |-> {}]
    ELSE [pc |-> "loop", op |-> op, tenant_id |-> tenant_id, txs |-> txlist, idx |-> 1,
          categorized |-> 0, failed |-> 0, total |-> 0, errors |-> 0, snapshot |-> {}]

(* The outer handler: log and re-raise *)
Raised(op, tenant_id) ==
    [pc |-> "raised", op |-> op, tenant_id |-> tenant_id, txs |-> << >>, idx |-> 0,
     categorized |-> 0, failed |-> 0, total |-> 0, errors |-> 0, snapshot |-> {}]

(* Faulty variant of the loop body without the inner handler: an exception
   from one transaction ends the whole call; the isolation property must
   fail on it *)
LoopBodyAborting(b, out) ==
    IF out.raised # "none"
    THEN [b EXCEPT !.pc = "raised"]
    ELSE LET last == b.idx = Len(b.txs)
         IN [b EXCEPT !.idx = @ + 1,
                      !.categorized = IF out.success THEN @ + 1 ELSE @,
                      !.failed = IF out.success THEN @ ELSE @ + 1,
                      !.pc = IF last THEN "done" ELSE "loop",
                      !.total = IF last THEN Len(b.txs) ELSE @]

(* The body of the for loop for one transaction, given the outcome `out` of
   its categorize_transaction call, and the results dictionary built after
   the last one.  errors counts the logger.error entries of the inner
   handler. *)
LoopBody(b, out) ==
    LET categorized == IF out.raised = "none" /\ out.success
                       THEN b.categorized + 1 ELSE b.categorized
        failed == IF out.raised = "none" /\ out.success
                  THEN b.failed ELSE b.failed + 1
        last == b.idx = Len(b.txs)
    IN [b EXCEPT !.idx = @ + 1,
                 !.categorized = categorized,
                 !.failed = failed,
                 !.errors = IF out.raised = "none" THEN @ ELSE @ + 1,
                 !.pc = IF last THEN "done" ELSE "loop",
                 !.total = IF last THEN Len(b.txs) ELSE @]

----------------------------------------------------------------------------
(* Concurrent sessions.  Each worker owns a SQLAlchemy session (db/session.py
   get_db): the rows it queries become objects private to that session, the
   model methods change those objects in memory, and the changed attributes
   reach the tables when the session is committed. *)
Workers == {"w1", "w2"}

SessionClosed ==
    [pc |-> "idle", t |-> Null, seen |-> << >>, local |-> << >>, tx |-> Null,
     rule |-> Null, success |-> FALSE]

NoWorkers == [w \in Workers |-> SessionClosed]

----------------------------------------------------------------------------
(* The user model and the login service.  Times are minutes. *)

(* str(n) of a non-negative int below 100, as its decimal digits *)
PyStr(n) == IF n < 10 THEN << n >> ELSE << n \div 10, n % 10 >>

(* int(s) of a string of decimal digits *)
PyInt(s) == IF Len(s) = 1 THEN s[1] ELSE 10 * s[1] + s[2]

(* The users row: the column defaults, for an account of tenant t1 *)
NewUser ==
    [email |-> "u@example.org", tenant_id |-> "t1", password_hash |-> "hash(right)",
     is_active |-> TRUE, failed_login_attempts |-> << 0 >>,
     locked_until |-> Null, last_login |-> Null]

NoLogins == [now |-> 0, user |-> NewUser]

(* SecurityUtils.verify_password *)
verify_password(plain_password, hashed_password) ==
    hashed_password = "hash(" \o plain_password \o ")"

(* User.is_locked *)
is_locked(user, now) ==
    IF user.locked_until = Null THEN FALSE ELSE now < user.locked_until

(* User.lock_account *)
lock_account(user, duration_minutes, now) ==
    [user EXCEPT !.locked_until = now + duration_minutes]

(* User.increment_failed_login; the stored text is always one that int()
   reads, so the except branch is not taken *)
increment_failed_login(user) ==
    [user EXCEPT !.failed_login_attempts = PyStr(PyInt(@) + 1)]

(* User.reset_failed_login *)
reset_failed_login(user) == [user EXCEPT !.failed_login_attempts = PyStr(0)]

(* AuthService.authenticate_user up to the commit: the users row after the
   call, whether it returned tokens, and the message of the ValueError *)
authenticate_user(user, email, password, tenant_id, now) ==
    IF ~(user.email = email /\ user.tenant_id = tenant_id)
    THEN [user |-> user, success |-> FALSE, raised |-> "Invalid email or password"]
    ELSE IF ~user.is_active
    THEN [user |-> user, success |-> FALSE, raised |-> "Account is deactivated"]
    ELSE IF is_locked(user, now)
    THEN [user |-> user, success |-> FALSE, raised |-> "Account is temporarily locked"]
    ELSE IF ~verify_password(password, user.password_hash)
    THEN LET counted == increment_failed_login(user) IN
         [user |-> IF PyInt(counted.failed_login_attempts) >= 5
                   THEN lock_account(counted, 30, now)
                   ELSE counted,
          success |-> FALSE, raised |-> "Invalid email or password"]
    ELSE [user |-> [reset_failed_login(user) EXCEPT !.last_login = now],
          success |-> TRUE, raised |-> "none"]

----------------------------------------------------------------------------
(* Actions: one per service call; a bulk call is its start followed by one
   step per transaction, and no other call runs in between *)

Init ==
    /\ rules = << >>
    /\ transactions = InitialTransactions
    /\ ret = Ret("none", Null, FALSE, "none")
    /\ bulk = Idle
    /\ calls = 0
    /\ workers = NoWorkers
    /\ auth = NoLogins

(* datetime.utcnow(): the clock advances with the calls made *)
utcnow == calls + 1

CanCall ==
    /\ bulk.pc # "loop"
    /\ calls < MaxCalls

CanCallBulk ==
    /\ bulk.pc # "loop"
    /\ calls < MaxBulkCalls

(* create_rule with the arguments of `call` *)
CreateRuleWith(call) ==
    LET err == CreateError(call)
    IN /\ CanCall
       /\ Len(rules) < MaxRules
       /\ calls' = calls + 1
       /\ rules' = IF err = "none" THEN Append(rules, NewRule(call)) ELSE rules
       /\ ret' = Ret("create_rule", IF err = "none" THEN Len(rules) + 1 ELSE Null,
                     err = "none", err)
       /\ UNCHANGED <<transactions, bulk, workers, auth>>

CreateRuleCall(k) == CreateRuleWith(CreateCalls[k])

CreateRule == \E k \in DOMAIN CreateCalls : CreateRuleCall(k)

(* The call budget of the rule management specification *)
CanManage == calls < MaxManageCalls

CreateManagedRule ==
    \E k \in DOMAIN ManagedCreateCalls : CanManage /\ CreateRuleWith(ManagedCreateCalls[k])

UpdateRuleCall(rule_id, tenant_id, k) ==
    LET out == update_rule(rules, rule_id, tenant_id, UpdateCalls[k]) IN
    /\ CanCall
    /\ CanManage
    /\ calls' = calls + 1
    /\ rules' = out.rules
    /\ ret' = Ret("update_rule",
                  IF out.raised = "none" THEN get_rule_by_id(rules, rule_id, tenant_id) ELSE Null,
                  out.raised = "none", out.raised)
    /\ UNCHANGED <<transactions, bulk, workers, auth>>

(* CategorizationRule.record_match, called on a loaded rule object *)
RecordMatch ==
    \E rule_id \in DOMAIN rules, success \in BOOLEAN :
       /\ CanCall
       /\ CanManage
       /\ calls' = calls + 1
       /\ rules' = [rules EXCEPT ![rule_id] = record_match(rules[rule_id], success, utcnow)]
       /\ ret' = Ret("record_match", rule_id, TRUE, "none")
       /\ UNCHANGED <<transactions, bulk, workers, auth>>

(* CategorizationRule.reset_statistics, called on a loaded rule object *)
ResetStatistics ==
    \E rule_id \in DOMAIN rules :
       /\ CanCall
       /\ CanManage
       /\ calls' = calls + 1
       /\ rules' = [rules EXCEPT ![rule_id] = reset_statistics(rules[rule_id])]
       /\ ret' = Ret("reset_statistics", rule_id, TRUE, "none")
       /\ UNCHANGED <<transactions, bulk, workers, auth>>

TestRuleCall(rule_id, tenant_id, txlist) ==
    LET out == test_rule(rules, transactions, rule_id, tenant_id, txlist, utcnow) IN
    /\ CanCall
    /\ CanManage
    /\ calls' = calls + 1
    /\ rules' = out.rules
    /\ transactions' = out.transactions
    /\ ret' = Ret("test_rule",
                  IF out.raised = "none" THEN get_rule_by_id(rules, rule_id, tenant_id) ELSE Null,
                  out.raised = "none", out.raised)
    /\ UNCHANGED <<bulk, workers, auth>>

TestRule ==
    \E rule_id \in 1..MaxRules, tenant_id \in Tenants :
       \E txlist \in Arrangements(TestableTransactions(transactions, tenant_id)) :
          TestRuleCall(rule_id, tenant_id, txlist)

UpdateRule ==
    \E rule_id \in 1..MaxRules, tenant_id \in Tenants, k \in DOMAIN UpdateCalls :
       UpdateRuleCall(rule_id, tenant_id, k)

ArchiveRuleCall(rule_id, tenant_id) ==
    LET r == get_rule_by_id(rules, rule_id, tenant_id) IN
    /\ CanCall
    /\ calls' = calls + 1
    /\ IF r = Null
       THEN /\ ret' = Ret("archive_rule", Null, FALSE, "ValueError")
            /\ UNCHANGED rules
       ELSE /\ rules' = [rules EXCEPT ![r].is_active = FALSE]
            /\ ret' = Ret("archive_rule", r, TRUE, "none")
    /\ UNCHANGED <<transactions, bulk, workers, auth>>

ArchiveRule == \E rule_id \in 1..MaxRules, tenant_id \in Tenants : ArchiveRuleCall(rule_id, tenant_id)

(* CategorizationRule.unarchive, called on a loaded rule object *)
UnarchiveRuleCall(rule_id) ==
    /\ CanCall
    /\ rule_id \in DOMAIN rules
    /\ calls' = calls + 1
    /\ rules' = [rules EXCEPT ![rule_id].is_active = TRUE]
    /\ ret' = Ret("unarchive", rule_id, TRUE, "none")
    /\ UNCHANGED <<transactions, bulk, workers, auth>>

UnarchiveRule == \E rule_id \in 1..MaxRules : UnarchiveRuleCall(rule_id)

DeleteRuleCall(rule_id, tenant_id) ==
    LET out == delete_rule(rules, rule_id, tenant_id) IN
    /\ CanCall
    /\ calls' = calls + 1
    /\ rules' = out.rules
    /\ ret' = Ret("delete_rule", get_rule_by_id(rules, rule_id, tenant_id),
                  out.raised = "none", out.raised)
    /\ UNCHANGED <<transactions, bulk, workers, auth>>

DeleteRule == \E rule_id \in 1..MaxRules, tenant_id \in Tenants : DeleteRuleCall(rule_id, tenant_id)

(* categorize_transaction(transactions[t], tenant_id), where the rule query
   returns `order` *)
CategorizeCall(t, tenant_id, order, fetch_ok, load_ok) ==
    LET out == categorize_transaction(rules, transactions[t], order, fetch_ok, load_ok, utcnow)
    IN /\ CanCall
       /\ calls' = calls + 1
       /\ rules' = out.rules
       /\ transactions' = [transactions EXCEPT ![t] = out.tx]
       /\ ret' = Ret("categorize_transaction", out.rule, out.success, out.raised)
       /\ UNCHANGED <<bulk, workers, auth>>
       /\ order \in get_active_rules(rules, tenant_id, NoStr)

Categorize ==
    \E t \in TxIds, tenant_id \in Tenants, fetch_ok \in BOOLEAN, load_ok \in BOOLEAN :
       /\ transactions[t].is_deleted = FALSE
       /\ \E order \in get_active_rules(rules, tenant_id, NoStr) :
             CategorizeCall(t, tenant_id, order, fetch_ok, load_ok)

(* bulk_categorize_transactions up to its loop: the transaction query
   (query_ok = FALSE: it raises) returning txlist, the early return, and the
   get_active_rules call before the loop (fetch_ok = FALSE: it raises) *)
BulkEntry(tenant_id, txlist, query_ok, fetch_ok) ==
    LET op == "bulk_categorize_transactions" IN
    IF ~query_ok THEN Raised(op, tenant_id)
    ELSE IF Len(txlist) = 0 THEN EnterLoop(op, tenant_id, txlist)
    ELSE IF ~fetch_ok THEN Raised(op, tenant_id)
    ELSE EnterLoop(op, tenant_id, txlist)

BulkStartCall(transaction_ids, tenant_id, txlist, query_ok, fetch_ok) ==
    LET op == "bulk_categorize_transactions"
        b == BulkEntry(tenant_id, txlist, query_ok, fetch_ok)
    IN /\ CanCallBulk
       /\ calls' = calls + 1
       /\ bulk' = [b EXCEPT !.snapshot = ActiveRuleIds(rules, tenant_id, NoStr)]
       /\ ret' = Ret(op, Null, b.pc = "done",
                     IF b.pc = "raised" THEN "StorageError" ELSE "none")
       /\ UNCHANGED <<rules, transactions, workers, auth>>
       /\ txlist \in Arrangements(ResolvedByIds(transactions, transaction_ids, tenant_id))

BulkStart ==
    \E transaction_ids \in BulkRequests, tenant_id \in Tenants,
       query_ok \in BOOLEAN, fetch_ok \in BOOLEAN :
       \E txlist \in Arrangements(ResolvedByIds(transactions, transaction_ids, tenant_id)) :
          BulkStartCall(transaction_ids, tenant_id, txlist, query_ok, fetch_ok)

(* categorize_account_transactions up to its loop: the transaction query
   returning txlist and the early return *)
AccountEntry(tenant_id, txlist, query_ok) ==
    LET op == "categorize_account_transactions" IN
    IF ~query_ok THEN Raised(op, tenant_id)
    ELSE EnterLoop(op, tenant_id, txlist)

AccountStartCall(account_id, tenant_id, start_date, end_date, txlist, query_ok) ==
    LET op == "categorize_account_transactions"
        b == AccountEntry(tenant_id, txlist, query_ok)
    IN /\ CanCallBulk
       /\ calls' = calls + 1
       /\ bulk' = [b EXCEPT !.snapshot = ActiveRuleIds(rules, tenant_id, NoStr)]
       /\ ret' = Ret(op, Null, b.pc = "done",
                     IF b.pc = "raised" THEN "StorageError" ELSE "none")
       /\ UNCHANGED <<rules, transactions, workers, auth>>
       /\ txlist \in Arrangements(ResolvedByAccount(transactions, account_id, tenant_id,
                                                    start_date, end_date))

AccountStart ==
    \E account_id \in AccountIds, tenant_id \in Tenants,
       start_date \in {Null} \cup Dates, end_date \in {Null} \cup Dates,
       query_ok \in BOOLEAN :
       \E txlist \in Arrangements(ResolvedByAccount(transactions, account_id, tenant_id,
                                                    start_date, end_date)) :
          AccountStartCall(account_id, tenant_id, start_date, end_date, txlist, query_ok)

(* One iteration of the loop of either bulk call: categorize_transaction on
   the next transaction inside try/except, and after the last one the
   results dictionary is returned *)
BulkStepCall(order, fetch_ok, load_ok) ==
    LET t == bulk.txs[bulk.idx]
        out == categorize_transaction(rules, transactions[t], order, fetch_ok, load_ok, utcnow)
        b == LoopBody(bulk, out)
    IN /\ bulk.pc = "loop"
       /\ rules' = out.rules
       /\ transactions' = [transactions EXCEPT ![t] = out.tx]
       /\ bulk' = b
       /\ ret' = Ret(bulk.op, Null, b.pc = "done",
                     IF b.pc = "raised" THEN "StorageError" ELSE "none")
       /\ UNCHANGED <<calls, workers, auth>>
       /\ order \in get_active_rules(rules, bulk.tenant_id, NoStr)

BulkStep ==
    \E fetch_ok \in BOOLEAN, load_ok \in BOOLEAN :
       \E order \in get_active_rules(rules, bulk.tenant_id, NoStr) :
          BulkStepCall(order, fetch_ok, load_ok)

Next ==
    \/ CreateRule
    \/ ArchiveRule
    \/ UnarchiveRule
    \/ DeleteRule
    \/ Categorize

Spec == Init /\ [][Next]_vars

(* The bulk calls, started from a rules table that earlier create_rule
   calls have filled *)
SeedLens == {1, 2}

ValidCalls == { k \in DOMAIN CreateCalls : CreateError(CreateCalls[k]) = "none" }

SeedTables ==
    UNION { { [i \in 1..n |-> NewRule(CreateCalls[ks[i]])] : ks \in [1..n -> ValidCalls] }
            : n \in SeedLens }

InitBulk ==
    /\ rules \in SeedTables
    /\ transactions = InitialTransactions
    /\ ret = Ret("none", Null, FALSE, "none")
    /\ bulk = Idle
    /\ calls = 0
    /\ workers = NoWorkers
    /\ auth = NoLogins

NextBulk ==
    \/ BulkStart
    \/ AccountStart
    \/ BulkStep

SpecBulk == InitBulk /\ [][NextBulk]_vars

(* archive_rule committed by another session while the loop of a bulk call
   is running *)
ConcurrentArchiveCall(rule_id, tenant_id) ==
    /\ bulk.pc = "loop"
    /\ get_rule_by_id(rules, rule_id, tenant_id) # Null
    /\ rules[rule_id].is_active
    /\ rules' = [rules EXCEPT ![rule_id].is_active = FALSE]
    /\ UNCHANGED <<transactions, ret, bulk, calls, workers, auth>>

ConcurrentArchive ==
    \E rule_id \in 1..MaxRules, tenant_id \in Tenants : ConcurrentArchiveCall(rule_id, tenant_id)

(* The bulk calls, with rules archived while they run *)
NextBatch ==
    \/ BulkStart
    \/ AccountStart
    \/ BulkStep
    \/ ConcurrentArchive

SpecBatch == InitBulk /\ [][NextBatch]_vars

(* Rule management: rules are created, edited and used *)
NextManage ==
    \/ CreateManagedRule
    \/ UpdateRule
    \/ TestRule
    \/ RecordMatch
    \/ ResetStatistics
    \/ CanManage /\ ArchiveRule
    \/ CanManage /\ UnarchiveRule
    \/ CanManage /\ DeleteRule
    \/ CanManage /\ Categorize

SpecManage == Init /\ [][NextManage]_vars

----------------------------------------------------------------------------
(* Vocabulary of the properties *)

(* The statistics columns of a rule *)
Statistics(rule) ==
    <<rule.match_count, rule.success_count, rule.last_matched_at, rule.last_success_at>>

(* The categorization columns of a transaction *)
Categorization(tx) ==
    <<tx.transaction_category, tx.transaction_subcategory, tx.is_auto_categorized,
      tx.categorization_confidence, tx.categorization_rule_id>>

(* Rule r is active, not soft-deleted and owned by tenant_id *)
Eligible(r, tenant_id) ==
    /\ r \in DOMAIN rules
    /\ rules[r].tenant_id = tenant_id
    /\ rules[r].is_deleted = FALSE
    /\ rules[r].is_active = TRUE

BelowCap(r) == rules[r].match_count < rules[r].max_matches_per_day

(* Rule r could be applied to transaction t in a call for tenant_id *)
Applicable(r, t, tenant_id) ==
    /\ Eligible(r, tenant_id)
    /\ matches_transaction(rules[r], transactions[t])
    /\ BelowCap(r)

(* The outcome `out` of a categorize_transaction call on transaction t has
   applied rule r in full: every categorization column written from r, r's
   statistics advanced to the current time, nothing else touched *)
FullyApplied(out, r, t) ==
    /\ out.tx = [transactions[t] EXCEPT
                   !.transaction_category = Categories[rules[r].category_id].name,
                   !.transaction_subcategory = rules[r].subcategory,
                   !.is_auto_categorized = TRUE,
                   !.categorization_confidence = rules[r].confidence_threshold,
                   !.categorization_rule_id = r]
    /\ out.rules = [rules EXCEPT ![r].match_count = @ + 1,
                                 ![r].success_count = @ + 1,
                                 ![r].last_matched_at = calls + 1,
                                 ![r].last_success_at = calls + 1]

----------------------------------------------------------------------------
(* C1 as stated: in every reachable state, for any two active, non-deleted
   rules R1 and R2 of the tenant that both match the transaction, R1 of
   higher priority and below its cap, a categorize_transaction call that
   returns returns (True, R1) with the transaction's categorization_rule_id
   = R1, and R2's statistics are unchanged.  Fails when another matching
   rule below its cap has a priority at least R1's. *)
C1Case(t, tenant_id, R1, R2) ==
    /\ Eligible(R1, tenant_id)
    /\ Eligible(R2, tenant_id)
    /\ matches_transaction(rules[R1], transactions[t])
    /\ matches_transaction(rules[R2], transactions[t])
    /\ rules[R1].priority > rules[R2].priority
    /\ BelowCap(R1)

C1_AnyPairFirstWins ==
    \A tenant_id \in Tenants, t \in TxIds : \A R1, R2 \in DOMAIN rules :
       C1Case(t, tenant_id, R1, R2)
       => \A order \in get_active_rules(rules, tenant_id, NoStr) :
          \A out \in { categorize_transaction(rules, transactions[t], order,
                                              TRUE, TRUE, utcnow) } :
             /\ out.success /\ out.rule = R1
             /\ out.tx.categorization_rule_id = R1
             /\ Statistics(out.rules[R2]) = Statistics(rules[R2])

(* C1, first-match-wins: in every reachable state, for any two active,
   non-deleted rules R1 and R2 of the tenant that both match the
   transaction, R1 of higher priority and below its cap,
   categorize_transaction never applies R2 nor changes its statistics; a
   call that returns returns (True, R) and sets categorization_rule_id = R.id
   for an applicable rule R of priority >= R1's, and R is R1 itself when no
   other applicable rule has a priority >= R1's. *)
C1_FirstMatchWins ==
    \A tenant_id \in Tenants, t \in TxIds : \A R1, R2 \in DOMAIN rules :
       C1Case(t, tenant_id, R1, R2)
       => \A order \in get_active_rules(rules, tenant_id, NoStr) :
          \A fetch_ok \in BOOLEAN, load_ok \in BOOLEAN :
          \A out \in { categorize_transaction(rules, transactions[t], order,
                                              fetch_ok, load_ok, utcnow) } :
             /\ Statistics(out.rules[R2]) = Statistics(rules[R2])
             /\ out.rule # R2
             /\ out.raised = "none"
                => /\ out.success
                   /\ Applicable(out.rule, t, tenant_id)
                   /\ rules[out.rule].priority >= rules[R1].priority
                   /\ FullyApplied(out, out.rule, t)
                   /\ (\A r \in DOMAIN rules \ {R1} :
                         ~(Applicable(r, t, tenant_id)
                           /\ rules[r].priority >= rules[R1].priority))
                      => out.rule = R1

(* C1 happens: a call applied a rule to a transaction that an active rule of
   lower priority of the same tenant matches too, and that one is untouched *)
C1_Witness ==
    /\ ret.op = "categorize_transaction"
    /\ ret.success
    /\ \E t \in TxIds, R2 \in DOMAIN rules :
          /\ transactions[t].categorization_rule_id = ret.rule
          /\ Eligible(ret.rule, rules[R2].tenant_id)
          /\ Eligible(R2, rules[R2].tenant_id)
          /\ matches_transaction(rules[ret.rule], transactions[t])
          /\ matches_transaction(rules[R2], transactions[t])
          /\ rules[ret.rule].priority > rules[R2].priority
          /\ rules[ret.rule].match_count = 1
          /\ rules[R2].match_count = 0

----------------------------------------------------------------------------
(* C2, cap fall-through: in every reachable state, when the scan of a
   categorize_transaction call reaches a matching rule r at its cap
   (match_count >= max_matches_per_day), r is not applied, r does not
   change, the transaction is not modified by r, and the scan goes on: a
   call that returns has applied the first later rule of the list that
   matches and is below its cap, or returns (False, None) with nothing
   changed if there is none. *)
C2_CapFallThrough ==
    \A tenant_id \in Tenants : \A order \in get_active_rules(rules, tenant_id, NoStr) :
       \A t \in TxIds, k \in DOMAIN order :
          LET r == order[k]
              later == { i \in (k + 1)..Len(order) : Applicable(order[i], t, tenant_id) }
          IN (/\ matches_transaction(rules[r], transactions[t])
              /\ rules[r].match_count >= rules[r].max_matches_per_day
              /\ \A i \in 1..(k - 1) : ~Applicable(order[i], t, tenant_id))
             => \A load_ok \in BOOLEAN :
                   \A out \in { categorize_transaction(rules, transactions[t], order, TRUE, load_ok, utcnow) } :
                      /\ out.rule # r
                      /\ out.rules[r] = rules[r]
                      /\ (out.tx.categorization_rule_id = r => out.tx = transactions[t])
                      /\ out.raised = "none"
                         => IF later = {}
                            THEN /\ ~out.success /\ out.rule = Null
                                 /\ out.rules = rules /\ out.tx = transactions[t]
                            ELSE LET j == CHOOSE i \in later : \A h \in later : i <= h
                                 IN /\ out.success /\ out.rule = order[j]
                                    /\ FullyApplied(out, order[j], t)

(* C2 happens: a call applied a rule although an active rule of the same
   tenant with a higher priority matches the transaction, that rule being at
   its cap *)
C2_Witness ==
    /\ ret.op = "categorize_transaction"
    /\ ret.success
    /\ \E t \in TxIds, r \in DOMAIN rules :
          /\ transactions[t].categorization_rule_id = ret.rule
          /\ rules[ret.rule].last_success_at = calls
          /\ Eligible(r, rules[ret.rule].tenant_id)
          /\ matches_transaction(rules[r], transactions[t])
          /\ rules[r].priority > rules[ret.rule].priority
          /\ rules[r].match_count >= rules[r].max_matches_per_day
          /\ rules[r].last_success_at < calls

----------------------------------------------------------------------------
(* C3, no-match frame: in every reachable state, whenever a
   categorize_transaction call returns (False, None), no rule's match_count,
   success_count, last_matched_at or last_success_at has changed and the
   transaction's five categorization columns are as before the call. *)
C3_NoMatchFrame ==
    \A tenant_id \in Tenants : \A order \in get_active_rules(rules, tenant_id, NoStr) :
       \A t \in TxIds, load_ok \in BOOLEAN :
          \A out \in { categorize_transaction(rules, transactions[t], order, TRUE, load_ok, utcnow) } :
             (out.raised = "none" /\ ~out.success)
             => /\ out.rule = Null
                /\ \A r \in DOMAIN rules : Statistics(out.rules[r]) = Statistics(rules[r])
                /\ Categorization(out.tx) = Categorization(transactions[t])

(* C3 happens: a call returned (False, None) although an active rule matches
   one of the (not deleted) transactions, because that rule is at its cap *)
C3_Witness ==
    /\ ret.op = "categorize_transaction"
    /\ ret.raised = "none"
    /\ ~ret.success
    /\ \E t \in TxIds, r \in DOMAIN rules :
          /\ transactions[t].is_deleted = FALSE
          /\ Eligible(r, transactions[t].tenant_id)
          /\ matches_transaction(rules[r], transactions[t])
          /\ rules[r].match_count >= rules[r].max_matches_per_day

----------------------------------------------------------------------------
(* C4, all-or-nothing: in every reachable state, a categorize_transaction
   call, whether it returns or raises, either categorizes the transaction in
   full by one rule (category, subcategory, confidence, is_auto_categorized
   = TRUE and categorization_rule_id written from that rule, its match_count
   and success_count each one more, both timestamps the current time) and
   returns (True, that rule), or does not succeed and leaves the transaction
   and every rule as they were; and no reachable state holds a transaction
   marked auto-categorized without a category, a confidence and a rule that
   has counted the success. *)
C4_AllOrNothing ==
    /\ \A tenant_id \in Tenants : \A order \in get_active_rules(rules, tenant_id, NoStr) :
             \A t \in TxIds, fetch_ok \in BOOLEAN, load_ok \in BOOLEAN :
                \A out \in { categorize_transaction(rules, transactions[t], order,
                                                    fetch_ok, load_ok, utcnow) } :
                   \/ /\ out.success /\ out.raised = "none"
                      /\ out.rule \in DOMAIN rules
                      /\ FullyApplied(out, out.rule, t)
                   \/ /\ ~out.success
                      /\ out.rule = Null
                      /\ out.tx = transactions[t]
                      /\ out.rules = rules
    /\ \A t \in TxIds :
          transactions[t].is_auto_categorized
          => /\ transactions[t].transaction_category # NoStr
             /\ transactions[t].categorization_confidence # Null
             /\ transactions[t].categorization_rule_id \in DOMAIN rules
             /\ rules[transactions[t].categorization_rule_id].match_count >= 1
             /\ rules[transactions[t].categorization_rule_id].success_count >= 1
             /\ rules[transactions[t].categorization_rule_id].last_success_at # Null

(* C4 happens: a call has categorized a transaction by a rule *)
C4_Witness ==
    /\ ret.op = "categorize_transaction"
    /\ ret.success
    /\ \E t \in TxIds :
          /\ transactions[t].is_auto_categorized
          /\ transactions[t].categorization_rule_id = ret.rule
          /\ transactions[t].transaction_category = Categories[rules[ret.rule].category_id].name
          /\ rules[ret.rule].success_count >= 1
          /\ rules[ret.rule].last_matched_at = calls

----------------------------------------------------------------------------
(* C5, determinism of rule selection: for a fixed rules table and a fixed
   transaction, every list get_active_rules can return makes
   categorize_transaction select the same rule. *)
C5_SelectionDeterministic ==
    \A tenant_id \in Tenants : \A o1, o2 \in get_active_rules(rules, tenant_id, NoStr) :
       \A t \in TxIds :
          categorize_transaction(rules, transactions[t], o1, TRUE, TRUE, utcnow).rule
             = categorize_transaction(rules, transactions[t], o2, TRUE, TRUE, utcnow).rule

----------------------------------------------------------------------------
(* C6, bulk partial-failure isolation: in every reachable state inside the
   loop of bulk_categorize_transactions or categorize_account_transactions,
   if processing the current transaction raises, the transaction is counted
   in 'failed' and not in 'categorized', the bulk call does not raise, no
   rule and no transaction is changed, and the loop moves on to the next
   transaction of the unchanged batch; the call ends only after the last
   transaction of the batch. *)
C6_PartialFailureIsolation ==
    /\ bulk.pc = "loop"
       => /\ bulk.idx \in 1..Len(bulk.txs)
          /\ \A order \in get_active_rules(rules, bulk.tenant_id, NoStr) :
             \A fetch_ok \in BOOLEAN, load_ok \in BOOLEAN :
             \A out \in { categorize_transaction(rules, transactions[bulk.txs[bulk.idx]],
                                                 order, fetch_ok, load_ok, utcnow) } :
             \A b \in { LoopBody(bulk, out) } :
                /\ b.txs = bulk.txs
                /\ b.idx = bulk.idx + 1
                /\ b.pc = IF bulk.idx = Len(bulk.txs) THEN "done" ELSE "loop"
                /\ out.raised # "none"
                   => /\ b.failed = bulk.failed + 1
                      /\ b.categorized = bulk.categorized
                      /\ out.rules = rules
                      /\ out.tx = transactions[bulk.txs[bulk.idx]]
    /\ bulk.pc = "done" => bulk.idx = IF bulk.txs = << >> THEN 0 ELSE Len(bulk.txs) + 1
    /\ bulk.errors <= bulk.failed

(* C6 happens: the first bulk call has ended normally on a batch of two
   whose first transaction raised and whose second was categorized *)
C6_Witness ==
    /\ calls = 1
    /\ bulk.pc = "done"
    /\ ret.raised = "none"
    /\ Len(bulk.txs) = 2
    /\ bulk.errors = 1
    /\ bulk.failed = 1
    /\ bulk.categorized = 1
    /\ transactions[bulk.txs[1]].is_auto_categorized = FALSE
    /\ transactions[bulk.txs[2]].is_auto_categorized = TRUE

----------------------------------------------------------------------------
(* C7, bulk count conservation: every result of
   bulk_categorize_transactions or categorize_account_transactions has
   categorized + failed = total, total being the number of resolved
   transactions, all of them of the given tenant and not soft-deleted;
   'categorized' goes up exactly for the transactions a rule was applied to;
   an empty resolved set gives {categorized: 0, failed: 0, total: 0}
   without error. *)
C7_CountConservation ==
    /\ bulk.pc = "done"
       => /\ bulk.categorized + bulk.failed = bulk.total
          /\ bulk.total = Len(bulk.txs)
          /\ ret.raised = "none"
    /\ bulk.pc \in {"loop", "done"}
       => /\ \A i \in DOMAIN bulk.txs :
                /\ transactions[bulk.txs[i]].tenant_id = bulk.tenant_id
                /\ transactions[bulk.txs[i]].is_deleted = FALSE
          /\ \A i, j \in DOMAIN bulk.txs : i # j => bulk.txs[i] # bulk.txs[j]
    /\ bulk.pc = "loop"
       => /\ bulk.categorized + bulk.failed = bulk.idx - 1
          /\ \A order \in get_active_rules(rules, bulk.tenant_id, NoStr) :
             \A fetch_ok \in BOOLEAN, load_ok \in BOOLEAN :
             \A out \in { categorize_transaction(rules, transactions[bulk.txs[bulk.idx]],
                                                 order, fetch_ok, load_ok, utcnow) } :
             \A b \in { LoopBody(bulk, out) } :
                /\ b.categorized + b.failed = bulk.idx
                /\ b.categorized = bulk.categorized + 1
                   <=> \E r \in DOMAIN rules :
                          /\ out.rules[r].success_count = rules[r].success_count + 1
                          /\ out.tx.categorization_rule_id = r
                          /\ out.tx.is_auto_categorized
    /\ \A tenant_id \in Tenants :
          /\ \A transaction_ids \in BulkRequests :
             \A txlist \in Arrangements(ResolvedByIds(transactions, transaction_ids, tenant_id)) :
                /\ Len(txlist) = Cardinality({ t \in transaction_ids :
                                                 /\ t \in TxIds
                                                 /\ transactions[t].tenant_id = tenant_id
                                                 /\ transactions[t].is_deleted = FALSE })
                /\ \A fetch_ok \in BOOLEAN :
                      Len(txlist) = 0
                      => \A b \in { BulkEntry(tenant_id, txlist, TRUE, fetch_ok) } :
                            /\ b.pc = "done"
                            /\ <<b.categorized, b.failed, b.total>> = <<0, 0, 0>>
          /\ \A b \in { AccountEntry(tenant_id, << >>, TRUE) } :
                /\ b.pc = "done"
                /\ <<b.categorized, b.failed, b.total>> = <<0, 0, 0>>

(* C7 happens: a bulk call has returned for a batch of two, one transaction
   categorized and one left without a matching rule *)
C7_Witness ==
    /\ bulk.pc = "done"
    /\ bulk.total = 2
    /\ bulk.categorized = 1
    /\ bulk.failed = 1
    /\ bulk.errors = 0

----------------------------------------------------------------------------
(* C8, repository errors abort the call: in every reachable state inside
   the loop of a bulk call, a storage error raised by the fetch of the
   active rules ends the bulk call with that error. *)
C8_FetchErrorAborts ==
    bulk.pc = "loop"
    => \A order \in get_active_rules(rules, bulk.tenant_id, NoStr) : \A load_ok \in BOOLEAN :
          LoopBody(bulk, categorize_transaction(rules, transactions[bulk.txs[bulk.idx]],
                                                order, FALSE, load_ok, utcnow)).pc = "raised"

----------------------------------------------------------------------------
(* C9, only eligible rules are applied: in every state reached by create,
   archive, unarchive, delete and categorize calls, a rule that is archived,
   soft-deleted or owned by another tenant than the one passed is in no list
   get_active_rules returns, is never the rule categorize_transaction
   returns or writes into the transaction, and keeps its statistics. *)
C9_OnlyEligibleRules ==
    \A tenant_id \in Tenants :
       /\ \A rule_type \in {NoStr, "keyword", "regex"} :
          \A order \in get_active_rules(rules, tenant_id, rule_type) :
          \A i \in DOMAIN order :
             /\ rules[order[i]].tenant_id = tenant_id
             /\ rules[order[i]].is_deleted = FALSE
             /\ rules[order[i]].is_active = TRUE
       /\ \A order \in get_active_rules(rules, tenant_id, NoStr) :
          \A t \in TxIds, fetch_ok \in BOOLEAN, load_ok \in BOOLEAN :
          \A out \in { categorize_transaction(rules, transactions[t], order,
                                              fetch_ok, load_ok, utcnow) } :
          \A r \in DOMAIN rules :
             (\/ rules[r].tenant_id # tenant_id
              \/ rules[r].is_deleted = TRUE
              \/ rules[r].is_active = FALSE)
             => /\ out.rule # r
                /\ Statistics(out.rules[r]) = Statistics(rules[r])
                /\ (out.tx # transactions[t] => out.tx.categorization_rule_id # r)

(* C9 happens: a call applied a rule to a transaction that an archived rule
   of the same tenant with a higher priority matches, and the archived rule
   has never been applied *)
C9_Witness ==
    /\ ret.op = "categorize_transaction"
    /\ ret.success
    /\ \E t \in TxIds, r \in DOMAIN rules :
          /\ transactions[t].categorization_rule_id = ret.rule
          /\ rules[ret.rule].last_success_at = calls
          /\ rules[r].tenant_id = rules[ret.rule].tenant_id
          /\ rules[r].is_active = FALSE
          /\ rules[r].is_deleted = FALSE
          /\ matches_transaction(rules[r], transactions[t])
          /\ rules[r].priority > rules[ret.rule].priority
          /\ rules[r].match_count = 0

----------------------------------------------------------------------------
(* C10, deletion guard: can_be_deleted is false for every system rule
   whatever its counters, false for every rule with match_count >= 10 and
   success_count / match_count >= 0.8, and true otherwise; delete_rule on a
   rule it finds and that cannot be deleted raises ValueError and leaves
   every rule as it was.  The first conjunct ranges over all counter values
   up to MaxCount; it does not read the state and is evaluated in the
   initial state only. *)
Guarded(is_system, match_count, success_count) ==
    \/ is_system
    \/ match_count >= 10 /\ 10 * success_count >= 8 * match_count

C10_DeletionGuard ==
    /\ calls = 0
       => \A is_system \in BOOLEAN, match_count \in 0..MaxCount :
          \A success_count \in 0..match_count :
             can_be_deleted([is_system |-> is_system, match_count |-> match_count,
                             success_count |-> success_count])
                = ~Guarded(is_system, match_count, success_count)
    /\ \A r \in DOMAIN rules :
          /\ can_be_deleted(rules[r])
                = ~Guarded(rules[r].is_system, rules[r].match_count, rules[r].success_count)
          /\ (/\ rules[r].is_deleted = FALSE
              /\ Guarded(rules[r].is_system, rules[r].match_count, rules[r].success_count))
             => delete_rule(rules, r, rules[r].tenant_id)
                   = [rules |-> rules, raised |-> "ValueError"]

(* C10 happens: delete_rule has raised ValueError on a rule that is not a
   system rule, has ten matches and eight successes, and is still there *)
C10_Witness ==
    /\ ret.op = "delete_rule"
    /\ ret.raised = "ValueError"
    /\ ret.rule \in DOMAIN rules
    /\ rules[ret.rule].is_system = FALSE
    /\ rules[ret.rule].match_count = 10
    /\ rules[ret.rule].success_count = 8
    /\ rules[ret.rule].is_deleted = FALSE

----------------------------------------------------------------------------
(* Two workers, each categorizing one transaction in a session of its own.
   The session is created with autoflush off and the engine with the
   database's default isolation (read committed), and no query locks a row:
   a worker's queries read the committed rows, categorize_transaction changes
   the session's objects, and the commit writes each changed attribute with
   the value the object holds. *)

(* The worker's call of categorize_transaction on transaction t *)
WorkerCategorizeCall(w, t, tenant_id, order) ==
    LET out == categorize_transaction(rules, transactions[t], order, TRUE, TRUE, utcnow) IN
    /\ workers[w].pc = "idle"
    /\ \A v \in Workers : workers[v].t # t
    /\ calls' = calls + 1
    /\ workers' = [workers EXCEPT ![w] =
                      [pc |-> "applied", t |-> t, seen |-> rules, local |-> out.rules,
                       tx |-> out.tx, rule |-> out.rule, success |-> out.success]]
    /\ ret' = Ret("categorize_transaction", out.rule, out.success, out.raised)
    /\ UNCHANGED <<rules, transactions, bulk, auth>>
    /\ order \in get_active_rules(rules, tenant_id, NoStr)

WorkerCategorize ==
    \E w \in Workers, t \in TxIds :
       /\ transactions[t].is_deleted = FALSE
       /\ \E order \in get_active_rules(rules, transactions[t].tenant_id, NoStr) :
             WorkerCategorizeCall(w, t, transactions[t].tenant_id, order)

(* The UPDATE the commit issues for one row: the attributes the session
   changed, set to the values the session holds *)
Flushed(row, seen, local) ==
    [a \in DOMAIN row |-> IF local[a] # seen[a] THEN local[a] ELSE row[a]]

(* The worker's commit *)
WorkerCommitCall(w) ==
    LET s == workers[w] IN
    /\ s.pc = "applied"
    /\ rules' = [r \in DOMAIN rules |-> Flushed(rules[r], s.seen[r], s.local[r])]
    /\ transactions' = [transactions EXCEPT ![s.t] = s.tx]
    /\ workers' = [workers EXCEPT ![w].pc = "done"]
    /\ UNCHANGED <<ret, bulk, calls, auth>>

WorkerCommit == \E w \in Workers : WorkerCommitCall(w)

NextWorkers ==
    \/ WorkerCategorize
    \/ WorkerCommit

SpecWorkers == InitBulk /\ [][NextWorkers]_vars

----------------------------------------------------------------------------
(* The performance flags on their own: one rule whose counters are drawn
   from 0..MaxCount, and the two properties read from it *)
InitFlags ==
    /\ rules \in { << [NewRule(CreateCalls[2]) EXCEPT !.match_count = m, !.success_count = s] >> :
                   m \in 0..MaxCount, s \in 0..MaxCount }
    /\ transactions = InitialTransactions
    /\ ret = Ret("none", Null, FALSE, "none")
    /\ bulk = Idle
    /\ calls = 0
    /\ workers = NoWorkers
    /\ auth = NoLogins

(* rules[1].is_high_performing *)
ReadHighPerforming ==
    /\ calls = 0
    /\ calls' = calls + 1
    /\ ret' = Ret("is_high_performing", 1, is_high_performing(rules[1]), "none")
    /\ UNCHANGED <<rules, transactions, bulk, workers, auth>>

(* rules[1].is_low_performing *)
ReadLowPerforming ==
    /\ calls = 0
    /\ calls' = calls + 1
    /\ ret' = Ret("is_low_performing", 1, is_low_performing(rules[1]), "none")
    /\ UNCHANGED <<rules, transactions, bulk, workers, auth>>

NextFlags ==
    \/ ReadHighPerforming
    \/ ReadLowPerforming

SpecFlags == InitFlags /\ [][NextFlags]_vars

----------------------------------------------------------------------------
(* The matcher on its own: matches_transaction applied to one rule and one
   transaction-like object, both drawn from the sets below *)

MatchRules ==
    { [NewRule(CreateCalls[2]) EXCEPT !.pattern = p, !.is_regex = x,
                                       !.is_case_sensitive = c, !.field_to_match = f,
                                       !.amount_min = b[1], !.amount_max = b[2]] :
      p \in { <<"a">>, <<"A", "b">>, <<"(">>, <<"^", "a">> },
      x \in BOOLEAN, c \in BOOLEAN,
      f \in {"description", "merchant_name", "nickname"},
      b \in { <<Null, Null>>, <<1000, Null>>, <<Null, 5000>>, <<1000, 5000>> } }

(* Objects with every attribute of a transaction; an amount of Null is None *)
MatchTransactions ==
    { [InitialTransactions[1] EXCEPT !.amount = a, !.description = d, !.merchant_name = m] :
      a \in {Null, 999, 1000, 2500, 5000, 5001},
      d \in { << >>, <<"a", "B">>, <<"b", "a">>, Unprintable },
      m \in { << >>, <<"a">> } }

Without(obj, attribute) == [a \in DOMAIN obj \ {attribute} |-> obj[a]]

InitMatch ==
    /\ rules \in { <<rule>> : rule \in MatchRules }
    /\ \/ transactions \in { <<tx>> : tx \in MatchTransactions }
       \/ transactions \in { << Without(tx, "amount") >> : tx \in MatchTransactions }
       \/ transactions \in { << Without(tx, "description") >> : tx \in MatchTransactions }
    /\ ret = Ret("none", Null, FALSE, "none")
    /\ bulk = Idle
    /\ calls = 0
    /\ workers = NoWorkers
    /\ auth = NoLogins

(* rules[1].matches_transaction(transactions[1]) *)
MatchesTransaction ==
    LET out == MatchCall(rules[1], transactions[1]) IN
    /\ calls = 0
    /\ calls' = calls + 1
    /\ ret' = Ret("matches_transaction", 1, out.value, out.raised)
    /\ UNCHANGED <<rules, transactions, bulk, workers, auth>>

SpecMatch == InitMatch /\ [][MatchesTransaction]_vars

----------------------------------------------------------------------------
(* What makes a rule invalid: its type, a regex pattern that does not
   compile, inverted amount bounds, or a category outside its tenant *)
InvalidRule(rule) ==
    \/ rule.rule_type \notin ValidTypes
    \/ rule.is_regex /\ ~ReCompiles(rule.pattern)
    \/ rule.amount_min # Null /\ rule.amount_max # Null /\ rule.amount_min > rule.amount_max
    \/ ~CategoryExists(rule.category_id, rule.tenant_id)

(* C11: create_rule and update_rule reject bad rules.  A create_rule call
   whose rule would be invalid raises; an update_rule call that would turn a
   valid stored rule into an invalid one raises and leaves the rules table
   as it was. *)
C11_InvalidRuleRejected ==
    /\ \A k \in DOMAIN ManagedCreateCalls :
          InvalidRule(NewRule(ManagedCreateCalls[k]))
          => CreateError(ManagedCreateCalls[k]) # "none"
    /\ \A rule_id \in DOMAIN rules, tenant_id \in Tenants, k \in DOMAIN UpdateCalls :
          \A out \in { update_rule(rules, rule_id, tenant_id, UpdateCalls[k]) } :
             ( /\ get_rule_by_id(rules, rule_id, tenant_id) # Null
               /\ ~InvalidRule(rules[rule_id])
               /\ InvalidRule(BaseUpdate(rules[rule_id], UpdateCalls[k])) )
             => (out.raised # "none" /\ out.rules = rules)

----------------------------------------------------------------------------
(* The cases of the matcher's error handling, on the rule and the object
   drawn *)
AmountUnusable(tx) == "amount" \notin DOMAIN tx \/ tx.amount = Null
FieldMissing(rule, tx) == rule.field_to_match \notin DOMAIN tx
HasBound(rule) == rule.amount_min # Null \/ rule.amount_max # Null

(* C12 as stated: matches_transaction never raises, and a missing field, a
   missing or non-comparable amount, a regex that does not compile at match
   time and a failing string conversion each give False, for every rule *)
C12_EveryFaultGivesFalse ==
    \A out \in { MatchCall(rules[1], transactions[1]) } :
       /\ out.raised = "none"
       /\ FieldMissing(rules[1], transactions[1]) => out.value = FALSE
       /\ AmountUnusable(transactions[1]) => out.value = FALSE
       /\ (rules[1].is_regex /\ \E i \in DOMAIN rules[1].pattern : rules[1].pattern[i] = "(")
          => out.value = FALSE
       /\ (~FieldMissing(rules[1], transactions[1])
           /\ transactions[1][rules[1].field_to_match] = Unprintable) => out.value = FALSE

(* C12, amended: matches_transaction never raises; a missing field, a regex
   that does not compile at match time and a failing string conversion give
   False, and a missing or non-comparable amount gives False when the rule
   has an amount bound (the amount is not looked at otherwise) *)
C12_MatcherTotal ==
    \A out \in { MatchCall(rules[1], transactions[1]) } :
       /\ out.raised = "none"
       /\ FieldMissing(rules[1], transactions[1]) => out.value = FALSE
       /\ (HasBound(rules[1]) /\ AmountUnusable(transactions[1])) => out.value = FALSE
       /\ (rules[1].is_regex /\ \E i \in DOMAIN rules[1].pattern : rules[1].pattern[i] = "(")
          => out.value = FALSE
       /\ (~FieldMissing(rules[1], transactions[1])
           /\ transactions[1][rules[1].field_to_match] = Unprintable) => out.value = FALSE

(* matches_transaction was called on an object without an amount by a rule
   with a lower bound, and on that object it returned False without raising *)
C12_Witness ==
    /\ ret.op = "matches_transaction"
    /\ ret.raised = "none"
    /\ ret.success = FALSE
    /\ rules[1].amount_min # Null
    /\ "amount" \notin DOMAIN transactions[1]
    /\ transactions[1].description = <<"b", "a">>
    /\ rules[1].pattern = <<"a">>
    /\ rules[1].field_to_match = "description"

----------------------------------------------------------------------------
(* C13: testing a rule is read-only.  test_rule on any rule, and
   test_against_transactions on any list of transactions, leave the
   statistics of every rule and the categorization fields of every
   transaction as they were. *)
C13_TestingReadOnly ==
    \A rule_id \in DOMAIN rules :
       /\ \A tenant_id \in Tenants :
             \A txlist \in Arrangements(TestableTransactions(transactions, tenant_id)) :
                \A out \in { test_rule(rules, transactions, rule_id, tenant_id, txlist, utcnow) } :
                   /\ \A r \in DOMAIN rules : Statistics(out.rules[r]) = Statistics(rules[r])
                   /\ \A t \in TxIds :
                         Categorization(out.transactions[t]) = Categorization(transactions[t])
       /\ \A S \in { {}, {2, 3}, {1, 4} } : \A txlist \in Arrangements(S) :
             \A out \in { test_against_transactions(rules[rule_id], transactions, txlist, utcnow) } :
                /\ Statistics(out.rule) = Statistics(rules[rule_id])
                /\ \A t \in TxIds :
                      Categorization(out.transactions[t]) = Categorization(transactions[t])

(* test_rule has just run on a rule that matches a transaction of the list
   it tested, and the rule has no recorded match and the transaction no
   automatic categorization *)
C13_Witness ==
    /\ ret.op = "test_rule"
    /\ ret.success
    /\ rules[ret.rule].match_count = 0
    /\ rules[ret.rule].last_matched_at = Null
    /\ \E t \in TestableTransactions(transactions, rules[ret.rule].tenant_id) :
          /\ matches_transaction(rules[ret.rule], transactions[t])
          /\ transactions[t].is_auto_categorized = FALSE

----------------------------------------------------------------------------
(* C14: counter updates of concurrent workers are serialized.  When both
   workers have committed and each applied the same rule to its own
   transaction, the rule's match_count and success_count are 2 above the
   values the rule had before either worker read it. *)
C14_NoLostIncrement ==
    \A R \in DOMAIN rules :
       ( /\ \A w \in Workers : workers[w].pc = "done" /\ workers[w].success
                                 /\ workers[w].rule = R
         /\ workers["w1"].t # workers["w2"].t )
       => \E w \in Workers :
             /\ \A v \in Workers : workers[w].seen[R].match_count <= workers[v].seen[R].match_count
             /\ rules[R].match_count = workers[w].seen[R].match_count + 2
             /\ rules[R].success_count = workers[w].seen[R].success_count + 2

----------------------------------------------------------------------------
(* C15: the effect of applying a rule.  When categorize_transaction returns
   (True, R), the transaction carries R's category name, R's subcategory
   (also when that is null and the transaction had one), R's confidence
   threshold, the automatic flag and R's id; R's two counters are one above
   their values before the call and its two timestamps are the time of the
   call; and no other rule has changed. *)
C15_EffectOfApplying ==
    \A tenant_id \in Tenants : \A order \in get_active_rules(rules, tenant_id, NoStr) :
       \A t \in TxIds, load_ok \in BOOLEAN :
          \A out \in { categorize_transaction(rules, transactions[t], order, TRUE, load_ok, utcnow) } :
             out.success
             => /\ out.rule \in DOMAIN rules
                /\ out.tx.transaction_category = Categories[rules[out.rule].category_id].name
                /\ out.tx.transaction_subcategory = rules[out.rule].subcategory
                /\ out.tx.categorization_confidence = rules[out.rule].confidence_threshold
                /\ out.tx.is_auto_categorized = TRUE
                /\ out.tx.categorization_rule_id = out.rule
                /\ out.rules[out.rule].match_count = rules[out.rule].match_count + 1
                /\ out.rules[out.rule].success_count = rules[out.rule].success_count + 1
                /\ out.rules[out.rule].last_matched_at = utcnow
                /\ out.rules[out.rule].last_success_at = utcnow
                /\ \A r \in DOMAIN rules \ {out.rule} : out.rules[r] = rules[r]

(* categorize_transaction has just applied a rule without a subcategory and
   with confidence 0.95 to the transaction that had the subcategory
   "diesel" *)
C15_Witness ==
    /\ ret.op = "categorize_transaction"
    /\ ret.success
    /\ rules[ret.rule].subcategory = NoStr
    /\ InitialTransactions[2].transaction_subcategory = "diesel"
    /\ transactions[2].categorization_rule_id = ret.rule
    /\ transactions[2].transaction_subcategory = NoStr
    /\ transactions[2].categorization_confidence = 95
    /\ transactions[2].is_auto_categorized

----------------------------------------------------------------------------
(* C16: the amount bounds are inclusive.  For a transaction with an amount
   and a rule whose pattern matches the field (the rule matches once its
   bounds are taken away), matches_transaction is true exactly when the
   amount is at or above amount_min, if set, and at or below amount_max, if
   set. *)
C16_InclusiveBounds ==
    \A rule \in { rules[1] } : \A tx \in { transactions[1] } :
       ( /\ "amount" \in DOMAIN tx
         /\ tx.amount # Null
         /\ matches_transaction([rule EXCEPT !.amount_min = Null, !.amount_max = Null], tx) )
       => ( matches_transaction(rule, tx)
            <=> /\ (rule.amount_min = Null \/ tx.amount >= rule.amount_min)
                /\ (rule.amount_max = Null \/ tx.amount <= rule.amount_max) )

(* matches_transaction has just returned True for an amount equal to the
   rule's lower bound *)
C16_Witness ==
    /\ ret.op = "matches_transaction"
    /\ ret.success
    /\ rules[1].amount_min = 1000
    /\ rules[1].amount_max = 5000
    /\ "amount" \in DOMAIN transactions[1]
    /\ transactions[1].amount = rules[1].amount_min

----------------------------------------------------------------------------
(* Substring and lower case, stated on their own for the property below *)
Folded(s) == [i \in DOMAIN s |-> IF s[i] = "A" THEN "a" ELSE IF s[i] = "B" THEN "b" ELSE s[i]]
OccursIn(p, s) == \E i \in 0..Len(s) : i + Len(p) <= Len(s) /\ SubSeq(s, i + 1, i + Len(p)) = p

AmountBoundsPass(rule, tx) ==
    \/ ~HasBound(rule)
    \/ /\ ~AmountUnusable(tx)
       /\ (rule.amount_min = Null \/ tx.amount >= rule.amount_min)
       /\ (rule.amount_max = Null \/ tx.amount <= rule.amount_max)

(* C17: literal matching.  For a rule that is not a regex rule and whose
   amount bounds pass, matches_transaction is false when the attribute named
   by field_to_match is absent or empty, and otherwise true exactly when the
   pattern occurs in the field value's string, both lower-cased when the
   rule is not case-sensitive and both unchanged when it is. *)
C17_LiteralMatching ==
    \A rule \in { rules[1] } : \A tx \in { transactions[1] } :
       (~rule.is_regex /\ AmountBoundsPass(rule, tx))
       => IF FieldMissing(rule, tx) THEN ~matches_transaction(rule, tx)
          ELSE \A value \in { tx[rule.field_to_match] } :
                  /\ value = << >> => ~matches_transaction(rule, tx)
                  /\ (value # << >> /\ value # Unprintable)
                     => ( matches_transaction(rule, tx)
                          <=> IF rule.is_case_sensitive
                              THEN OccursIn(rule.pattern, value)
                              ELSE OccursIn(Folded(rule.pattern), Folded(value)) )

(* matches_transaction has just returned True for a rule that is neither a
   regex rule nor case-sensitive, whose pattern "Ab" occurs in the
   description "aB" only once both are lower-cased *)
C17_Witness ==
    /\ ret.op = "matches_transaction"
    /\ ret.success
    /\ ~rules[1].is_regex
    /\ ~rules[1].is_case_sensitive
    /\ rules[1].field_to_match = "description"
    /\ rules[1].pattern = <<"A", "b">>
    /\ "description" \in DOMAIN transactions[1]
    /\ transactions[1].description = <<"a", "B">>

----------------------------------------------------------------------------
(* C18: one rule snapshot per batch.  While a bulk call is in its loop, the
   outcome of categorizing the next transaction is the outcome of evaluating
   it against the rules that were active when the call started, in priority
   order, whatever has been archived since. *)
C18_OneSnapshotPerBatch ==
    bulk.pc = "loop"
    => \A order \in get_active_rules(rules, bulk.tenant_id, NoStr) :
          \A out \in { categorize_transaction(rules, transactions[bulk.txs[bulk.idx]], order,
                                               TRUE, TRUE, utcnow) } :
             \E listed \in QueryResults(rules, bulk.snapshot) :
                \A scan \in { ScanRules(rules, listed, 1, transactions[bulk.txs[bulk.idx]],
                                         utcnow, TRUE) } :
                   /\ scan.success = out.success
                   /\ scan.rule = out.rule
                   /\ scan.tx = out.tx

----------------------------------------------------------------------------
(* C19: the counters are monotonic.  A rule that create_rule has just stored
   has match_count = 0 and success_count = 0, and no step other than
   reset_statistics makes either counter of a stored rule smaller. *)
C19_MonotonicCounters ==
    [][ ret'.op # "reset_statistics"
        => /\ \A r \in DOMAIN rules :
                 /\ rules'[r].match_count >= rules[r].match_count
                 /\ rules'[r].success_count >= rules[r].success_count
           /\ \A r \in DOMAIN rules' \ DOMAIN rules :
                 /\ rules'[r].match_count = 0
                 /\ rules'[r].success_count = 0 ]_vars

(* C20: the statistics belong to the categorization workflow.  A step of
   create_rule, update_rule, archive_rule or delete_rule leaves the counters
   and the timestamps of every stored rule as they were, and a rule that
   create_rule stores has counters 0 and no timestamps. *)
C20_CounterOwnership ==
    [][ ret'.op \in {"create_rule", "update_rule", "archive_rule", "delete_rule"}
        => /\ \A r \in DOMAIN rules : Statistics(rules'[r]) = Statistics(rules[r])
           /\ \A r \in DOMAIN rules' \ DOMAIN rules :
                 Statistics(rules'[r]) = <<0, 0, Null, Null>> ]_vars

----------------------------------------------------------------------------
(* C21: rule validity.  Every stored rule has ordered amount bounds when
   both are set, and a pattern that compiles when it is a regex rule. *)
C21_RuleValidity ==
    \A r \in DOMAIN rules :
       /\ (rules[r].amount_min # Null /\ rules[r].amount_max # Null)
          => rules[r].amount_min <= rules[r].amount_max
       /\ rules[r].is_regex => ReCompiles(rules[r].pattern)

----------------------------------------------------------------------------
(* C22: the lifecycle of a rule.  A stored rule becomes soft-deleted only in
   a step of delete_rule on that rule, which can_be_deleted allowed; archive
   and unarchive leave is_deleted as it is; and on a soft-deleted rule
   update_rule, delete_rule and test_rule raise, and no step of archive_rule,
   update_rule, delete_rule or test_rule changes it. *)
C22_RuleLifecycle ==
    [][ \A r \in DOMAIN rules :
          /\ (~rules[r].is_deleted /\ rules'[r].is_deleted)
             => (ret'.op = "delete_rule" /\ ret'.rule = r /\ can_be_deleted(rules[r]))
          /\ ret'.op \in {"archive_rule", "unarchive"}
             => rules'[r].is_deleted = rules[r].is_deleted
          /\ rules[r].is_deleted
             => /\ ret'.op \in {"archive_rule", "update_rule", "delete_rule", "test_rule"}
                   => rules'[r] = rules[r]
                /\ \A k \in DOMAIN UpdateCalls :
                      update_rule(rules, r, rules[r].tenant_id, UpdateCalls[k]).raised
                      = "ValueError"
                /\ delete_rule(rules, r, rules[r].tenant_id).raised = "ValueError"
                /\ test_rule(rules, transactions, r, rules[r].tenant_id, << >>, utcnow).raised
                   = "ValueError" ]_vars

----------------------------------------------------------------------------
(* C23: the derived performance flags.  For counters m = match_count and
   s = success_count, success_rate is 0 when m = 0 and the quotient s / m
   otherwise; is_high_performing holds exactly when 10 s >= 8 m and m >= 10;
   is_low_performing holds exactly when 10 s < 3 m and m >= 5; and no rule is
   both. *)
C23_PerformanceFlags ==
    \A rule \in { rules[1] } : \A m \in { rule.match_count }, s \in { rule.success_count } :
       /\ m = 0 => success_rate(rule) = 0
       /\ m > 0 => /\ success_rate(rule) * m <= 1000 * s
                   /\ 1000 * s < (success_rate(rule) + 1) * m
       /\ is_high_performing(rule) <=> (10 * s >= 8 * m /\ m >= 10)
       /\ is_low_performing(rule) <=> (10 * s < 3 * m /\ m >= 5)
       /\ ~(is_high_performing(rule) /\ is_low_performing(rule))

(* is_low_performing has just been read as False from a rule with ten
   matches and three successes, whose rate is exactly 0.3 *)
C23_Witness ==
    /\ ret.op = "is_low_performing"
    /\ ret.success = FALSE
    /\ rules[1].match_count = 10
    /\ rules[1].success_count = 3

----------------------------------------------------------------------------
(* C24: the tallies of a rule test.  For a stored rule and a list of
   transactions, test_against_transactions returns the length of the list as
   total_tested, the number of listed transactions the rule matches as
   matches, those of them whose category is the rule's category name as
   successes and the others as false_positives, and the number of unmatched
   ones whose category is the rule's category name as false_negatives; so
   matches = successes + false_positives and matches + false_negatives <=
   total_tested. *)
C24_TestTallies ==
    \A rule_id \in DOMAIN rules :
       \A S \in { {}, {1, 2}, {2, 3}, {1, 4} } : \A txlist \in Arrangements(S) :
          \A res \in { test_against_transactions(rules[rule_id], transactions, txlist,
                                                 utcnow).results } :
             \A matched \in { { t \in S : matches_transaction(rules[rule_id], transactions[t]) } } :
             \A same \in { { t \in S : transactions[t].transaction_category
                                       = Categories[rules[rule_id].category_id].name } } :
                /\ res.total_tested = Cardinality(S)
                /\ res.matches = Cardinality(matched)
                /\ res.successes = Cardinality(matched \cap same)
                /\ res.false_positives = Cardinality(matched \ same)
                /\ res.false_negatives = Cardinality(same \ matched)
                /\ res.matches = res.successes + res.false_positives
                /\ res.matches + res.false_negatives <= res.total_tested

(* test_rule has just run on a rule for "fuel" with a lower amount bound
   that matches transaction 1, whose category is not "fuel" (a false
   positive), and does not match transaction 2, whose category is "fuel" (a
   false negative) *)
C24_Witness ==
    /\ ret.op = "test_rule"
    /\ ret.success
    /\ Categories[rules[ret.rule].category_id].name = "fuel"
    /\ matches_transaction(rules[ret.rule], transactions[1])
    /\ transactions[1].transaction_category # "fuel"
    /\ ~matches_transaction(rules[ret.rule], transactions[2])
    /\ transactions[2].transaction_category = "fuel"

----------------------------------------------------------------------------
(* Manual categorization through the transaction service *)

(* TransactionService.get_transaction_by_id: the id of the row of that id
   and tenant that is not soft-deleted, or Null *)
get_transaction_by_id(txs, transaction_id, tenant_id) ==
    IF /\ transaction_id \in DOMAIN txs
       /\ txs[transaction_id].tenant_id = tenant_id
       /\ txs[transaction_id].is_deleted = FALSE
    THEN transaction_id
    ELSE Null

(* TransactionService.categorize_transaction; an omitted subcategory is
   NoStr, an omitted confidence or rule_id is Null, a given confidence is a
   float in hundredths *)
ManualCategorizeCall(transaction_id, tenant_id, category, subcategory, confidence, rule_id) ==
    LET op == "manual_categorize_transaction"
        found == get_transaction_by_id(transactions, transaction_id, tenant_id)
    IN /\ CanManage
       /\ calls' = calls + 1
       /\ IF found = Null
          THEN /\ ret' = Ret(op, rule_id, FALSE, "ValueError")
               /\ UNCHANGED transactions
          ELSE /\ transactions' =
                     [transactions EXCEPT ![found] =
                         categorize(@, category, subcategory,
                                    IF confidence = Null THEN Null
                                    ELSE DecimalOfStr(FloatStr(confidence)),
                                    rule_id)]
               /\ ret' = Ret(op, rule_id, TRUE, "none")
       /\ UNCHANGED <<rules, bulk, workers, auth>>

ManualCategorize ==
    \E transaction_id \in TxIds, tenant_id \in Tenants, confidence \in {Null, 50},
       rule_id \in {Null, 1} :
       ManualCategorizeCall(transaction_id, tenant_id, "misc", NoStr, confidence, rule_id)

NextTransactions ==
    \/ CanManage /\ Categorize
    \/ ManualCategorize

SpecTransactions == InitBulk /\ [][NextTransactions]_vars

----------------------------------------------------------------------------
(* C25: the auto-categorization flag.  Whatever calls came before, a
   Transaction.categorize call leaves is_auto_categorized true exactly when
   it was given a rule id, and a call without a rule id (which leaves the
   flag false) leaves no rule of an earlier call behind: the transaction's
   categorization_rule_id is empty and its categorization_confidence is the
   one this call gave, or empty if it gave none. *)
C25_AutoFlag ==
    \A t \in TxIds : \A confidence \in {Null, 50} : \A rule_id \in {Null, 1} :
       \A out \in { categorize(transactions[t], "misc", NoStr, confidence, rule_id) } :
          /\ out.is_auto_categorized = (rule_id # Null)
          /\ ~out.is_auto_categorized =>
                /\ out.categorization_rule_id = Null
                /\ out.categorization_confidence = confidence

----------------------------------------------------------------------------
(* The counters of rules that were created with both counters at 0, under
   the calls that count: categorization (apply_to_transaction), record_match,
   reset_statistics and rule tests *)
InitCounters ==
    /\ InitBulk
    /\ \A r \in DOMAIN rules : rules[r].match_count = 0 /\ rules[r].success_count = 0

NextCounters ==
    \/ CanManage /\ Categorize
    \/ RecordMatch
    \/ ResetStatistics
    \/ TestRule

SpecCounters == InitCounters /\ [][NextCounters]_vars

(* C26: counter consistency.  For rules created with both counters at 0,
   after any sequence of categorization, record_match (success or not),
   reset_statistics and rule test calls, every rule has
   0 <= success_count <= match_count, and so its success_rate (here in
   thousandths) lies between 0 and 1. *)
C26_CounterConsistency ==
    \A r \in DOMAIN rules :
       /\ 0 <= rules[r].success_count
       /\ rules[r].success_count <= rules[r].match_count
       /\ 0 <= success_rate(rules[r])
       /\ success_rate(rules[r]) <= 1000

(* record_match has just left a rule with some but not all of its matches
   counted as successes *)
C26_Witness ==
    /\ ret.op = "record_match"
    /\ rules[ret.rule].match_count >= 2
    /\ rules[ret.rule].success_count >= 1
    /\ rules[ret.rule].success_count < rules[ret.rule].match_count

----------------------------------------------------------------------------
(* The categorization calls of one worker, single and bulk, on a rules table
   that nothing else changes *)
NextCap ==
    \/ CanManage /\ Categorize
    \/ BulkStart
    \/ AccountStart
    \/ BulkStep

SpecCap == InitBulk /\ [][NextCap]_vars

(* C27: the cap is a lifetime bound.  Under single and bulk categorization
   calls of one worker, a rule whose match_count is at or below its
   max_matches_per_day stays at or below it, and a rule whose match_count
   equals its max_matches_per_day is not applied by any later step, whatever
   the time of the call: its match_count stays and no transaction is newly
   attributed to it. *)
C27_CapIsLifetime ==
    [][ \A r \in DOMAIN rules :
           rules[r].match_count <= rules[r].max_matches_per_day =>
              /\ rules'[r].max_matches_per_day = rules[r].max_matches_per_day
              /\ rules'[r].match_count <= rules[r].max_matches_per_day
              /\ rules[r].match_count = rules[r].max_matches_per_day =>
                    /\ rules'[r].match_count = rules[r].match_count
                    /\ rules'[r].last_matched_at = rules[r].last_matched_at
                    /\ \A t \in TxIds :
                          transactions'[t] # transactions[t] =>
                             transactions'[t].categorization_rule_id # r ]_vars

(* A categorization call has just passed over a rule that matches
   transaction 1 and that earlier calls had brought to its cap, and applied
   another rule or none *)
C27_Witness ==
    \E r \in DOMAIN rules :
       /\ ret.op = "categorize_transaction"
       /\ ret.rule # r
       /\ rules[r].match_count = rules[r].max_matches_per_day
       /\ rules[r].last_matched_at # Null
       /\ rules[r].last_matched_at < calls
       /\ rules[r].tenant_id = "t1"
       /\ matches_transaction(rules[r], transactions[1])
       /\ transactions[1].categorization_rule_id # Null

----------------------------------------------------------------------------
(* Rules created through create_rule, then used by categorization calls and
   offered to delete_rule *)
NextUsage ==
    \/ CanManage /\ Categorize
    \/ CanManage /\ DeleteRule

SpecUsage == InitBulk /\ [][NextUsage]_vars

(* C28: usage makes a rule undeletable.  A non-system rule that create_rule
   made and only categorization calls changed has success_count =
   match_count, its match_count being the number of transactions it was
   applied to; from 10 applications on delete_rule on it raises ValueError,
   and before that delete_rule on it succeeds. *)
C28_UsageBlocksDeletion ==
    \A r \in DOMAIN rules :
       (~rules[r].is_system /\ ~rules[r].is_deleted) =>
          /\ rules[r].success_count = rules[r].match_count
          /\ \A out \in { delete_rule(rules, r, rules[r].tenant_id) } :
                /\ rules[r].match_count >= 10 => out.raised = "ValueError"
                /\ rules[r].match_count < 10 =>
                      out.raised = "none" /\ out.rules[r].is_deleted

----------------------------------------------------------------------------
(* C29: re-categorization is idempotent on the transaction.  When
   categorize_transaction is called twice in a row on the same transaction
   with nothing in between, the second call selects the rule the first one
   selected and leaves the transaction's category, subcategory, confidence
   and categorization_rule_id as the first call left them, while the selected
   rule's counters are incremented by each call. *)
C29_RecategorizationIdempotent ==
    \A t \in TxIds : \A tenant_id \in Tenants :
       \A order1 \in get_active_rules(rules, tenant_id, NoStr) :
          \A first \in { categorize_transaction(rules, transactions[t], order1,
                                                TRUE, TRUE, utcnow) } :
             \A order2 \in get_active_rules(first.rules, tenant_id, NoStr) :
                \A second \in { categorize_transaction(first.rules, first.tx, order2,
                                                       TRUE, TRUE, utcnow + 1) } :
                   first.success =>
                      /\ second.success
                      /\ second.rule = first.rule
                      /\ second.tx.transaction_category = first.tx.transaction_category
                      /\ second.tx.transaction_subcategory = first.tx.transaction_subcategory
                      /\ second.tx.categorization_confidence = first.tx.categorization_confidence
                      /\ second.tx.categorization_rule_id = first.tx.categorization_rule_id
                      /\ second.rules[first.rule].match_count
                            = rules[first.rule].match_count + 2

----------------------------------------------------------------------------
(* Logins of one account as time passes *)
InitLogin ==
    /\ rules = << >>
    /\ transactions = InitialTransactions
    /\ ret = Ret("none", Null, FALSE, "none")
    /\ bulk = Idle
    /\ calls = 0
    /\ workers = NoWorkers
    /\ auth \in { [now |-> 0, user |-> [NewUser EXCEPT !.is_active = a]] : a \in BOOLEAN }

AuthenticateUser ==
    \E email \in {"u@example.org", "v@example.org"}, password \in {"right", "wrong"},
       tenant_id \in Tenants :
       LET out == authenticate_user(auth.user, email, password, tenant_id, auth.now) IN
       /\ auth' = [auth EXCEPT !.user = out.user]
       /\ ret' = Ret("authenticate_user", Null, out.success, out.raised)
       /\ UNCHANGED <<rules, transactions, bulk, calls, workers>>

(* datetime.utcnow() moves on between two logins *)
ClockTick ==
    \E minutes \in {10, 20} :
       /\ auth.now + minutes <= MaxClock
       /\ auth' = [auth EXCEPT !.now = @ + minutes]
       /\ ret' = Ret("none", Null, FALSE, "none")
       /\ UNCHANGED <<rules, transactions, bulk, calls, workers>>

NextLogin ==
    \/ AuthenticateUser
    \/ ClockTick

SpecLogin == InitLogin /\ [][NextLogin]_vars

(* The users row after n wrong-password logins in a row at one time *)
RECURSIVE WrongAttempts(_, _, _)
WrongAttempts(user, n, now) ==
    IF n = 0 THEN user
    ELSE WrongAttempts(authenticate_user(user, user.email, "wrong", user.tenant_id, now).user,
                       n - 1, now)

(* C30: login lockout.  On an active account that is not locked, a login
   with a wrong password is rejected and adds one to failed_login_attempts,
   and when that makes 5 the account is locked for 30 minutes; a login with
   the right password succeeds and sets the counter to 0.  While the account
   is locked every login is rejected, right password or wrong, and the row
   stays as it is.  Once the lock has expired the account again takes 5
   wrong passwords: the first 4 leave it unlocked and the 5th locks it. *)
C30_LoginLockout ==
    \A u \in { auth.user } : \A now \in { auth.now } :
       /\ (u.is_active /\ ~is_locked(u, now)) =>
             /\ \A out \in { authenticate_user(u, u.email, "wrong", u.tenant_id, now) } :
                   /\ ~out.success
                   /\ PyInt(out.user.failed_login_attempts) = PyInt(u.failed_login_attempts) + 1
                   /\ PyInt(out.user.failed_login_attempts) = 5 =>
                         out.user.locked_until = now + 30
             /\ \A out \in { authenticate_user(u, u.email, "right", u.tenant_id, now) } :
                   /\ out.success
                   /\ PyInt(out.user.failed_login_attempts) = 0
       /\ (u.is_active /\ is_locked(u, now)) =>
             /\ \A password \in {"right", "wrong"} :
                   \A out \in { authenticate_user(u, u.email, password, u.tenant_id, now) } :
                      ~out.success /\ out.user = u
             /\ \A n \in 1..4 :
                   ~is_locked(WrongAttempts(u, n, u.locked_until), u.locked_until)
             /\ is_locked(WrongAttempts(u, 5, u.locked_until), u.locked_until)

====
